---- MODULE Spec2Model ----
(***************************************************************************)
(* A state-machine model of the update path of the pyrogram client:        *)
(*   - Cache                     (pyrogram/client.py, class Cache)         *)
(*   - Client.handle_updates     (pyrogram/client.py)                      *)
(*   - Client.recover_gaps       (pyrogram/client.py)                      *)
(*   - Dispatcher                (pyrogram/dispatcher.py)                  *)
(* Each part has its own next-state relation over the shared variables;    *)
(* the parts that a specification does not move are left UNCHANGED.        *)
(***************************************************************************)
EXTENDS Integers, Sequences, FiniteSets, TLC

VARIABLES
    capacity,      \* Cache.capacity
    store,         \* Cache.store: a dict, kept as the sequence of <<key, value>> in insertion order
    lastOp,        \* history: the last Cache call, [op, key, value, result, had]
    evicted,       \* history: the keys the last __setitem__ deleted in its eviction loop, in order
    skip_updates,  \* Client.skip_updates
    storage_state, \* the storage's update_state table: scope id -> stored pts
    updates_queue, \* Dispatcher.updates_queue (asyncio.Queue), a FIFO of packets
    hu,            \* the running handle_updates call: its position, the updates left, is_min
    server_pts,    \* the server: scope id -> the pts the server has reached for that scope
    server_honest, \* the server: TRUE when every difference request is answered correctly
    rg,            \* the running recover_gaps call: position, loop variables, history
    phase,         \* Dispatcher: "new", "started" (start ran), "stopping", "stopped"
    locks_list,    \* Dispatcher.locks_list: a sequence of asyncio.Lock, each [owner, waiters]
    groups,        \* Dispatcher.groups: the OrderedDict as a sequence of [group, handlers]
    workers,       \* Dispatcher.handler_worker_tasks: per worker its position and history
    muts,          \* the tasks made by add_handler / remove_handler, in creation order
    nputs,         \* history: the number of packets put on the queue so far
    peers_arg,     \* the list of entities a fetch_peers call is given
    fetched,       \* the fetch_peers call: what it handed to storage and what it returned
    max_concurrent_transmissions, \* Client.max_concurrent_transmissions
    get_file_semaphore,  \* Client.get_file_semaphore: the permits left
    save_file_semaphore, \* Client.save_file_semaphore: the permits left
    transfers,     \* the transfer tasks: per task its kind, position, file and result
    now,           \* the clock, in ticks
    last_update_time,       \* Client.last_update_time
    updates_watchdog_event, \* Client.updates_watchdog_event: TRUE when set
    wd,            \* the updates_watchdog task: position, start of its wait, history
    gf,            \* one get_file call followed chunk by chunk: the generator's locals
    media_sessions,\* Client.media_sessions: dc id -> the session stored for it
    made,          \* the media Session objects made so far, each with its state
    getters        \* the get_file calls that look up and create media sessions

cacheVars == <<capacity, store, lastOp, evicted>>

updVars == <<skip_updates, storage_state, updates_queue, hu>>

gapVars == <<server_pts, server_honest, rg>>

dispVars == <<phase, locks_list, groups, workers, muts, nputs>>

peerVars == <<peers_arg, fetched>>

xferVars == <<max_concurrent_transmissions, get_file_semaphore, save_file_semaphore, transfers>>

wdVars == <<now, last_update_time, updates_watchdog_event, wd>>

gfVars == <<gf>>

msVars == <<media_sessions, made, getters>>

sideVars == <<wdVars, gfVars, msVars>>

vars == <<capacity, store, lastOp, evicted, skip_updates, storage_state, updates_queue, hu,
          server_pts, server_honest, rg, phase, locks_list, groups, workers, muts, nputs,
          peers_arg, fetched, max_concurrent_transmissions, get_file_semaphore,
          save_file_semaphore, transfers, now, last_update_time, updates_watchdog_event, wd,
          gf, media_sessions, made, getters>>

(***************************************************************************)
(* Bounds of the model.                                                    *)
(***************************************************************************)
MaxCapacity == 3

MaxPts == 3

MaxQueue == 1

MaxCrashes == 1

NWorkers == 2

MaxCalls == 2

MaxUpdates == 2

(***************************************************************************)
(* Generic helpers.                                                        *)
(***************************************************************************)
NoValue == "None"

SeqRange(s) == { s[i] : i \in 1..Len(s) }

DropFirst(s, n) == IF n >= Len(s) THEN << >> ELSE SubSeq(s, n + 1, Len(s))

TakeFirst(s, n) == IF n >= Len(s) THEN s ELSE SubSeq(s, 1, n)

(***************************************************************************)
(* Cache (client.py, class Cache).                                         *)
(***************************************************************************)
CacheKeys == {"k1", "k2", "k3", "k4", "k5"}

CacheValues == {"v1", "v2"}

StoreKeys(st) == { st[i][1] : i \in 1..Len(st) }

\* dict lookup: self.store.get(key, None)
StoreGet(st, key) ==
    IF key \in StoreKeys(st)
    THEN (CHOOSE e \in SeqRange(st) : e[1] = key)[2]
    ELSE NoValue

\* del self.store[key]
StoreDel(st, key) == SelectSeq(st, LAMBDA e : e[1] # key)

\* the mutant of EvictCount: one entry too few
EvictCountOffByOne(cap) == cap \div 2

\* range(self.capacity // 2 + 1): the number of eviction rounds
EvictCount(cap) == cap \div 2 + 1

\* the mutant of StoreInserted: the old entry of the key is not deleted
StoreInsertedKeepsOld(st, key, value) == Append(st, <<key, value>>)

\* the store after "if key in store: del store[key]; store[key] = value"
StoreInserted(st, key, value) == Append(StoreDel(st, key), <<key, value>>)

\* the keys deleted by the loop "del self.store[next(iter(self.store))]"
EvictedKeys(st, cap) ==
    IF Len(st) > cap
    THEN [i \in 1..EvictCount(cap) |-> st[i][1]]
    ELSE << >>

\* Cache.__setitem__ as a function of the store
CacheSetItem(st, cap, key, value) ==
    LET ins == StoreInserted(st, key, value)
    IN  IF Len(ins) > cap THEN DropFirst(ins, EvictCount(cap)) ELSE ins

CacheInit ==
    /\ capacity \in 0..MaxCapacity
    /\ store = << >>
    /\ lastOp = [op |-> "init", key |-> NoValue, value |-> NoValue, result |-> NoValue,
                had |-> FALSE]
    /\ evicted = << >>

\* Cache.__setitem__(key, value)
SetItem(key, value) ==
    /\ store' = CacheSetItem(store, capacity, key, value)
    /\ evicted' = EvictedKeys(StoreInserted(store, key, value), capacity)
    /\ lastOp' = [op |-> "set", key |-> key, value |-> value, result |-> NoValue,
                 had |-> key \in StoreKeys(store)]
    /\ UNCHANGED capacity
    /\ UNCHANGED <<updVars, gapVars, dispVars, peerVars, xferVars, sideVars>>

\* Cache.__getitem__(key)
GetItem(key) ==
    /\ lastOp' = [op |-> "get", key |-> key, value |-> NoValue, result |-> StoreGet(store, key),
                 had |-> key \in StoreKeys(store)]
    /\ UNCHANGED <<capacity, store, evicted>>
    /\ UNCHANGED <<updVars, gapVars, dispVars, peerVars, xferVars, sideVars>>

CacheNext ==
    \/ \E k \in CacheKeys, v \in CacheValues : SetItem(k, v)
    \/ \E k \in CacheKeys : GetItem(k)

(***************************************************************************)
(* The storage's update_state table (storage classes are not part of the   *)
(* modelled sources; the table follows the storage contract: a tuple is    *)
(* set per scope id, the table is enumerated at start).  Of the tuple      *)
(* (id, pts, qts, date, seq) the model keeps id and pts.                   *)
(***************************************************************************)
NoStates == [i \in {} |-> 0]

\* storage.update_state((id, pts, qts, date, seq)): set the tuple of scope id
StateSet(st, id, pts) == [i \in (DOMAIN st) \cup {id} |-> IF i = id THEN pts ELSE st[i]]

\* storage.update_state(id): called with a bare id, which carries no pts; the
\* contract does not say whether the tuple of that scope is kept or dropped
StateAfterIdCall(st, id) == { st, [i \in (DOMAIN st) \ {id} |-> st[i]] }

\* utils.get_channel_id: the (negative) scope id of a channel
GetChannelId(channel_id) == 0 - channel_id

(***************************************************************************)
(* Client.handle_updates (client.py).  An absent attribute (getattr ->     *)
(* None) and a zero are both falsy in the code; both are 0 here.           *)
(***************************************************************************)
ChannelIds == {1}

PtsValues == 1..MaxPts

PtsCounts == {1}

Update(kind, channel_id, pts, pts_count) ==
    [kind |-> kind, channel_id |-> channel_id, pts |-> pts, pts_count |-> pts_count]

\* the elements of Updates.updates / UpdatesCombined.updates
InnerUpdates ==
    { Update("UpdateNewMessage", 0, p, c) : p \in PtsValues, c \in PtsCounts }
    \cup { Update("UpdateNewChannelMessage", ch, p, c) :
               ch \in ChannelIds, p \in PtsValues, c \in PtsCounts }
    \cup { Update("UpdateUserStatus", 0, 0, 0) }

Batches == { <<u>> : u \in InnerUpdates } \cup { <<u, v>> : u \in InnerUpdates, v \in InnerUpdates }

HuIdle == [pc |-> "idle", rest |-> << >>, is_min |-> FALSE]

\* utils.get_channel_id(channel_id) if channel_id else 0
ScopeOf(update) == IF update.channel_id # 0 THEN GetChannelId(update.channel_id) ELSE 0

\* the mutant of StateAfterUpdate: the pts is written also when updates are skipped
StateAfterUpdateSkipIgnored(st, update, skip) ==
    IF update.pts # 0
    THEN StateSet(st, ScopeOf(update), update.pts)
    ELSE st

\* "if pts and not self.skip_updates: await self.storage.update_state((scope, pts, ...))"
StateAfterUpdate(st, update, skip) ==
    IF update.pts # 0 /\ ~skip
    THEN StateSet(st, ScopeOf(update), update.pts)
    ELSE st

UpdInit ==
    /\ skip_updates \in BOOLEAN
    /\ storage_state = NoStates
    /\ updates_queue = << >>
    /\ hu = HuIdle

\* handle_updates(updates) for Updates / UpdatesCombined: the call starts and notes
\* the time in last_update_time (as every call of handle_updates does); fetch_peers
\* has answered is_min; the loop over updates.updates is entered
HandleUpdatesBegin(batch, is_min) ==
    /\ hu.pc = "idle"
    /\ hu' = [pc |-> "loop", rest |-> batch, is_min |-> is_min]
    /\ last_update_time' = now
    /\ UNCHANGED <<skip_updates, storage_state, updates_queue>>
    /\ UNCHANGED <<now, updates_watchdog_event, wd, gfVars, msVars>>
    /\ UNCHANGED <<cacheVars, peerVars, xferVars, gapVars, dispVars>>

\* one round of "for update in updates.updates".  invoke_raises: the GetChannelDifference
\* request (or resolve_peer) of the is_min branch raised an error that is not caught
\* there, which ends the call before put_nowait.
HandleUpdatesStep(invoke_raises) ==
    /\ hu.pc = "loop"
    /\ hu.rest # << >>
    /\ Len(updates_queue) < MaxQueue
    /\ LET update == Head(hu.rest)
           calls  == update.kind = "UpdateNewChannelMessage" /\ hu.is_min
           raised == calls /\ invoke_raises
       IN  /\ (~calls => ~invoke_raises)
           /\ storage_state' = StateAfterUpdate(storage_state, update, skip_updates)
           /\ updates_queue' = IF raised THEN updates_queue ELSE Append(updates_queue, update)
           /\ hu' = IF raised \/ Len(hu.rest) = 1
                    THEN HuIdle
                    ELSE [hu EXCEPT !.rest = Tail(hu.rest)]
    /\ UNCHANGED skip_updates
    /\ UNCHANGED <<cacheVars, peerVars, xferVars, sideVars, gapVars, dispVars>>

\* a worker's "packet = await self.updates_queue.get()", seen from the producer's side
QueueGet ==
    /\ updates_queue # << >>
    /\ updates_queue' = Tail(updates_queue)
    /\ UNCHANGED <<skip_updates, storage_state, hu>>
    /\ UNCHANGED <<cacheVars, peerVars, xferVars, sideVars, gapVars, dispVars>>

\* the answers of the GetDifference request made for a short message
ShortDiffAnswers == {"raises", "new_messages", "other_updates", "nothing"}

\* handle_updates(updates) for UpdateShortMessage / UpdateShortChatMessage
HandleShortMessage(pts, pts_count, answer, other) ==
    /\ hu.pc = "idle"
    /\ Len(updates_queue) < MaxQueue
    /\ storage_state' = IF skip_updates THEN storage_state ELSE StateSet(storage_state, 0, pts)
    /\ updates_queue' =
          CASE answer = "new_messages"  -> Append(updates_queue, Update("UpdateNewMessage", 0, pts, pts_count))
            [] answer = "other_updates" -> Append(updates_queue, other)
            [] OTHER                    -> updates_queue
    /\ last_update_time' = now
    /\ UNCHANGED <<skip_updates, hu>>
    /\ UNCHANGED <<now, updates_watchdog_event, wd, gfVars, msVars>>
    /\ UNCHANGED <<cacheVars, peerVars, xferVars, gapVars, dispVars>>

\* handle_updates(updates) for UpdateShort: the update is queued as it is
HandleUpdateShort(update) ==
    /\ hu.pc = "idle"
    /\ Len(updates_queue) < MaxQueue
    /\ updates_queue' = Append(updates_queue, update)
    /\ last_update_time' = now
    /\ UNCHANGED <<skip_updates, storage_state, hu>>
    /\ UNCHANGED <<now, updates_watchdog_event, wd, gfVars, msVars>>
    /\ UNCHANGED <<cacheVars, peerVars, xferVars, gapVars, dispVars>>

UpdNext ==
    \/ \E b \in Batches, m \in BOOLEAN : HandleUpdatesBegin(b, m)
    \/ \E r \in BOOLEAN : HandleUpdatesStep(r)
    \/ \E p \in PtsValues, c \in PtsCounts, a \in ShortDiffAnswers, o \in InnerUpdates :
          HandleShortMessage(p, c, a, o)
    \/ \E u \in InnerUpdates : HandleUpdateShort(u)
    \/ QueueGet

(***************************************************************************)
(* Client.recover_gaps (client.py) and the server it asks.  The server     *)
(* keeps, per scope, the events 1..server_pts[id]; event q is a message    *)
(* when q is odd and another update when q is even.  Of a difference the   *)
(* model keeps its type, its pts (state.pts, intermediate_state.pts or     *)
(* pts), the final flag, new_messages and other_updates; the counters that *)
(* recover_gaps only logs and returns are left out.                        *)
(***************************************************************************)
ScopeIds == {0} \cup { GetChannelId(ch) : ch \in ChannelIds }

\* the channel id of a (negative) channel scope id; 0 for the global scope
ChannelOfScope(id) == IF id < 0 THEN 0 - id ELSE 0

RECURSIVE EventsBetween(_, _, _, _)
\* the events with pts in (from, to] that are messages (odd = TRUE) or other updates
EventsBetween(id, from, to, odd) ==
    IF from >= to THEN << >>
    ELSE LET q    == from + 1
             rest == EventsBetween(id, q, to, odd)
         IN  IF (q % 2 = 1) = odd THEN <<q>> \o rest ELSE rest

Answer(type, pts, final, id, from) ==
    [type |-> type, pts |-> pts, final |-> final,
     new_messages  |-> EventsBetween(id, from, pts, TRUE),
     other_updates |-> EventsBetween(id, from, pts, FALSE)]

NoContent(type) ==
    [type |-> type, pts |-> 0, final |-> TRUE, new_messages |-> << >>, other_updates |-> << >>]

\* what a server that answers correctly may return to a request with pts = local
HonestAnswers(id, local) ==
    LET top == server_pts[id]
    IN  IF id < 0
        THEN IF local >= top
             THEN { NoContent("ChannelDifferenceEmpty") }
             ELSE { Answer("ChannelDifference", top, TRUE, id, local) }
                  \cup { Answer("ChannelDifference", p, FALSE, id, local) : p \in (local + 1)..(top - 1) }
        ELSE IF local >= top
             THEN { NoContent("DifferenceEmpty") }
             ELSE { Answer("Difference", top, TRUE, id, local) }
                  \cup { Answer("DifferenceSlice", p, FALSE, id, local) : p \in (local + 1)..(top - 1) }

\* what any server may return: every type the loop distinguishes, any pts, and the errors
\* (CaughtError: one of the errors the loop catches; OtherError: any other error).  The
\* loop's control flow reads the type and the pts only; these answers carry no messages
\* and no other updates.
AnyAnswers(id, local) ==
    IF id < 0
    THEN { NoContent(t) : t \in {"ChannelDifferenceEmpty", "ChannelDifferenceTooLong",
                                 "CaughtError", "OtherError"} }
         \cup { [Answer("ChannelDifference", p, f, id, local) EXCEPT
                    !.new_messages = << >>,
                    !.other_updates = << >>] : p \in 0..MaxPts, f \in BOOLEAN }
    ELSE { NoContent(t) : t \in {"DifferenceEmpty", "DifferenceTooLong", "CaughtError", "OtherError"} }
         \cup { [Answer(t, p, t = "Difference", id, local) EXCEPT
                    !.new_messages = << >>,
                    !.other_updates = << >>] :
                  t \in {"Difference", "DifferenceSlice"}, p \in 0..MaxPts }

Answers(id, local) == IF server_honest THEN HonestAnswers(id, local) ELSE AnyAnswers(id, local)

\* states = await self.storage.update_state(): the stored tuples <<id, pts>>, in the
\* storage's order (any order here)
StatesInOrder(st) ==
    LET n      == Cardinality(DOMAIN st)
        orders == { o \in [1..n -> DOMAIN st] : \A i, j \in 1..n : i # j => o[i] # o[j] }
    IN  { [i \in 1..n |-> <<o[i], st[o[i]]>>] : o \in orders }

\* final_pts: the local_pts with which the loop of a scope was left in this run;
\* confirmed: the pts the server had confirmed for the scope whose loop was abandoned,
\* kept until that scope's loop gets its first answer in the next run;
\* crashes: how many runs were abandoned
RgIdle == [pc |-> "idle", todo |-> << >>, id |-> 0, local_pts |-> 0, prev_pts |-> 0,
           last |-> NoValue, final_pts |-> NoStates, confirmed |-> NoStates, crashes |-> 0]

\* st without the entry of id
Without(st, id) == [i \in (DOMAIN st) \ {id} |-> st[i]]

\* "id, local_pts, _, local_date, _ = state; prev_pts = 0": the loop of the next state
RgEnter(r, todo) ==
    IF todo = << >>
    THEN [r EXCEPT !.pc = "done", !.todo = << >>]
    ELSE [r EXCEPT !.pc = "loop", !.todo = Tail(todo), !.id = Head(todo)[1],
                   !.local_pts = Head(todo)[2], !.prev_pts = 0, !.last = NoValue]

\* local_pts after the isinstance chain of one iteration
LocalPtsAfter(local, diff) ==
    IF diff.type \in {"Difference", "DifferenceSlice", "ChannelDifference"} THEN diff.pts ELSE local

\* the iteration leaves the loop before anything is queued
BreaksBeforeQueue(prev, diff) ==
    \/ diff.type \in {"CaughtError", "DifferenceEmpty", "DifferenceTooLong",
                      "ChannelDifferenceEmpty", "ChannelDifferenceTooLong"}
    \/ diff.type = "DifferenceSlice" /\ prev = diff.pts

\* "if isinstance(diff, (Difference, ChannelDifference)): break"
BreaksAfterQueue(diff) == diff.type \in {"Difference", "ChannelDifference"}

\* the packets one iteration puts on the queue: the messages, then the other updates
Recovered(id, pts, diff) ==
    [i \in 1..Len(diff.new_messages) |->
        [kind |-> "UpdateNewMessage", channel_id |-> ChannelOfScope(id), pts |-> pts,
         pts_count |-> -1, message |-> diff.new_messages[i]]]
    \o [i \in 1..Len(diff.other_updates) |->
        [kind |-> "UpdateDeleteMessages", channel_id |-> ChannelOfScope(id),
         pts |-> diff.other_updates[i], pts_count |-> 1, message |-> 0]]

\* the queue is kept as the log of what recover_gaps has put on it, up to this length
GapQueueCap == 2 * MaxPts

StoredStates ==
    { st \in UNION { [ids -> PtsValues] : ids \in SUBSET ScopeIds } : TRUE }

GapInit ==
    /\ skip_updates = FALSE
    /\ hu = HuIdle
    /\ updates_queue = << >>
    /\ storage_state \in StoredStates
    /\ server_honest \in BOOLEAN
    /\ server_pts \in [ScopeIds -> PtsValues]
    /\ \A id \in ScopeIds \ DOMAIN storage_state : server_pts[id] = 1
    /\ server_honest => \A id \in DOMAIN storage_state : storage_state[id] <= server_pts[id]
    /\ rg = RgIdle

GapIdle ==
    /\ server_honest = TRUE
    /\ server_pts = [id \in ScopeIds |-> 1]
    /\ rg = RgIdle

\* recover_gaps() up to the first loop: the stored states are read
RecoverGapsBegin(order) ==
    /\ rg.pc \in {"idle", "called"}
    /\ rg' = RgEnter(rg, order)
    /\ UNCHANGED <<skip_updates, storage_state, updates_queue, hu, server_pts, server_honest>>
    /\ UNCHANGED <<cacheVars, peerVars, xferVars, sideVars, dispVars>>

\* one iteration of "while True" for the state rg.id, with the server's answer diff; when
\* the loop is left, "await self.storage.update_state(id)" and the next state's loop
RecoverGapsIteration(diff, after) ==
    /\ rg.pc = "loop"
    /\ diff \in Answers(rg.id, rg.local_pts)
    /\ IF diff.type = "OtherError"
       THEN /\ rg' = [rg EXCEPT !.pc = "raised", !.last = diff.type,
                                !.confirmed = Without(@, rg.id)]
            /\ after = storage_state
            /\ UNCHANGED <<storage_state, updates_queue>>
       ELSE LET local  == LocalPtsAfter(rg.local_pts, diff)
                early  == BreaksBeforeQueue(rg.prev_pts, diff)
                leaves == early \/ BreaksAfterQueue(diff)
                seen   == [rg EXCEPT !.local_pts = local, !.last = diff.type,
                                     !.confirmed = Without(@, rg.id),
                                     !.prev_pts = IF diff.type = "DifferenceSlice" /\ ~early
                                                  THEN local ELSE @]
            IN  /\ updates_queue' = IF early THEN updates_queue
                                    ELSE updates_queue \o Recovered(rg.id, local, diff)
                /\ Len(updates_queue') <= GapQueueCap
                /\ IF leaves
                   THEN /\ after \in StateAfterIdCall(storage_state, rg.id)
                        /\ storage_state' = after
                        /\ rg' = RgEnter([seen EXCEPT !.final_pts = StateSet(@, rg.id, local)],
                                         rg.todo)
                   ELSE /\ after = storage_state
                        /\ storage_state' = storage_state
                        /\ rg' = seen
    /\ UNCHANGED <<skip_updates, hu, server_pts, server_honest>>
    /\ UNCHANGED <<cacheVars, peerVars, xferVars, sideVars, dispVars>>

\* the process dies at an await of the loop: what recover_gaps held and what it had
\* queued is gone, the storage is as it was written; recover_gaps then runs again
RecoverGapsAbandoned ==
    /\ rg.pc = "loop"
    /\ rg.crashes < MaxCrashes
    /\ rg' = [RgIdle EXCEPT
                !.crashes = rg.crashes + 1,
                !.confirmed = IF rg.last = NoValue THEN NoStates
                              ELSE StateSet(NoStates, rg.id, rg.local_pts)]
    /\ updates_queue' = << >>
    /\ UNCHANGED <<skip_updates, storage_state, hu, server_pts, server_honest>>
    /\ UNCHANGED <<cacheVars, peerVars, xferVars, sideVars, dispVars>>

GapNext ==
    \/ \E order \in StatesInOrder(storage_state) : RecoverGapsBegin(order)
    \/ RecoverGapsAbandoned
    \/ \E diff \in AnyAnswers(rg.id, rg.local_pts) \cup HonestAnswers(rg.id, rg.local_pts) :
          \E after \in StateAfterIdCall(storage_state, rg.id) : RecoverGapsIteration(diff, after)

(***************************************************************************)
(* Dispatcher (dispatcher.py).  The tasks run on one asyncio event loop:   *)
(* a task runs alone between two awaits.  A worker's awaits (queue get and *)
(* parser, lock, check, callback) are step boundaries; fn of add_handler   *)
(* and remove_handler runs on through the locks it finds free, as          *)
(* asyncio.Lock.acquire does not suspend on a free lock.                   *)
(***************************************************************************)
Workers == 1..NWorkers

GroupNumbers == {0, 1}

Handlers == {"m1", "raw"}

\* the class of a registered handler object
HandlerClass(h) == IF h = "raw" THEN "RawUpdateHandler" ELSE "MessageHandler"

UpdateKinds == {"UpdateNewMessage", "UpdateChannelTooLong"}

\* self.update_parsers.get(type(update), None) and the handler type the parser returns;
\* type(None) when there is no parser
HandlerTypeOf(kind) ==
    CASE kind = "UpdateNewMessage" -> "MessageHandler"
      [] kind = "UpdateEditMessage" -> "EditedMessageHandler"
      [] OTHER -> "NoneType"

\* the first value the parser returns, the parsed event; None when there is no parser
ParsedUpdate(kind) ==
    IF kind \in {"UpdateNewMessage", "UpdateEditMessage"} THEN "Message" ELSE NoValue

\* the mutant of IsCandidate: the check of every handler is called for every update
IsCandidateAnyType(h, kind) == TRUE

\* "isinstance(handler, handler_type)" or "isinstance(handler, RawUpdateHandler)": the
\* handler's check is called at all
IsCandidate(h, kind) ==
    HandlerClass(h) = HandlerTypeOf(kind) \/ HandlerClass(h) = "RawUpdateHandler"

\* args after a check that was true: (parsed_update,) in the isinstance(handler,
\* handler_type) branch, (update, users, chats) in the RawUpdateHandler branch
ArgsFor(h, kind) ==
    IF HandlerClass(h) = HandlerTypeOf(kind)
    THEN <<ParsedUpdate(kind)>>
    ELSE <<kind, "users", "chats">>

(* asyncio.Lock: acquire takes a free lock with no waiter at once and queues
   otherwise; release hands the lock to the first waiter. *)
NoTask == <<"none", 0>>

FreeLock == [owner |-> NoTask, waiters |-> << >>]

LockAcquire(locks, i, task) ==
    IF locks[i].owner = NoTask /\ locks[i].waiters = << >>
    THEN [locks EXCEPT ![i].owner = task]
    ELSE [locks EXCEPT ![i].waiters = Append(@, task)]

LockRelease(locks, i) ==
    IF locks[i].waiters = << >>
    THEN [locks EXCEPT ![i].owner = NoTask]
    ELSE [locks EXCEPT ![i].owner = Head(locks[i].waiters), ![i].waiters = Tail(@)]

RECURSIVE ReleaseAll(_, _)
\* "for lock in ...: lock.release()" over the lock indices in the sequence which
ReleaseAll(locks, which) ==
    IF which = << >> THEN locks
    ELSE ReleaseAll(LockRelease(locks, Head(which)), Tail(which))

WorkerTask(w) == <<"worker", w>>

MutTask(j) == <<"mutator", j>>

(* The group table. *)
GroupIndex(table, g) ==
    IF \E i \in 1..Len(table) : table[i].group = g
    THEN CHOOSE i \in 1..Len(table) : table[i].group = g
    ELSE 0

RECURSIVE SortedInsert(_, _)
\* the table with entry put at its place by group number: sorted(self.groups.items())
\* of a table that was sorted before the new key was added
SortedInsert(table, entry) ==
    IF table = << >> THEN <<entry>>
    ELSE IF entry.group < Head(table).group
         THEN <<entry>> \o table
         ELSE <<Head(table)>> \o SortedInsert(Tail(table), entry)

\* the mutant of WithGroup: the new group is appended and the table is not sorted again
WithGroupUnsorted(table, g) ==
    IF GroupIndex(table, g) # 0 THEN table
    ELSE Append(table, [group |-> g, handlers |-> << >>])

\* "if group not in self.groups: self.groups[group] = []; self.groups = OrderedDict(sorted(...))"
WithGroup(table, g) ==
    IF GroupIndex(table, g) # 0 THEN table
    ELSE SortedInsert(table, [group |-> g, handlers |-> << >>])

\* add_handler's body: "self.groups[group].append(handler)"; entry is [handler, call]
AddToGroup(table, g, entry) ==
    LET t == WithGroup(table, g)
    IN  [t EXCEPT ![GroupIndex(t, g)].handlers = Append(@, entry)]

\* list.remove(handler): the list without the first entry that is that handler
RemoveFirst(hs, h) ==
    LET i == CHOOSE k \in 1..Len(hs) : hs[k].handler = h /\ \A m \in 1..(k - 1) : hs[m].handler # h
    IN  SubSeq(hs, 1, i - 1) \o SubSeq(hs, i + 1, Len(hs))

\* remove_handler raises ValueError: the group is missing or the handler is not in it
RemoveFails(table, g, h) ==
    \/ GroupIndex(table, g) = 0
    \/ \A k \in 1..Len(table[GroupIndex(table, g)].handlers) :
          table[GroupIndex(table, g)].handlers[k].handler # h

\* remove_handler's body: "self.groups[group].remove(handler)"
RemoveFromGroup(table, g, h) ==
    IF RemoveFails(table, g, h) THEN table
    ELSE [table EXCEPT ![GroupIndex(table, g)].handlers = RemoveFirst(@, h)]

(* The dispatch pass: "for group in self.groups.values(): for handler in group". *)
NoPos == <<0, 0>>

RECURSIVE NextPos(_, _, _)
\* the first position at or after (gi, hi) in iteration order, NoPos when the loops end
NextPos(table, gi, hi) ==
    IF gi > Len(table) THEN NoPos
    ELSE IF hi > Len(table[gi].handlers) THEN NextPos(table, gi + 1, 1)
         ELSE <<gi, hi>>

\* the mutant of AfterCallback: a callback that returned is not the winner of its group
AfterCallbackNoBreak(outcome) ==
    CASE outcome = "StopPropagation"     -> "end_pass"
      [] outcome = "ContinuePropagation" -> "next_handler"
      [] OTHER                           -> "next_handler"

\* the mutant of AfterCallback: StopPropagation is handled like any other exception
AfterCallbackStopIgnored(outcome) ==
    CASE outcome = "StopPropagation"     -> "next_group"
      [] outcome = "ContinuePropagation" -> "next_handler"
      [] OTHER                           -> "next_group"

\* the mutant of AfterCallback: ContinuePropagation is handled like any other exception
AfterCallbackContinueBreaks(outcome) ==
    CASE outcome = "StopPropagation"     -> "end_pass"
      [] outcome = "ContinuePropagation" -> "next_group"
      [] OTHER                           -> "next_group"

\* what follows the callback: "except StopPropagation: raise", "except
\* ContinuePropagation: continue", "except Exception: log", then "break"
AfterCallback(outcome) ==
    CASE outcome = "StopPropagation"     -> "end_pass"
      [] outcome = "ContinuePropagation" -> "next_handler"
      [] OTHER                           -> "next_group"

CallbackOutcomes == {"return", "error", "StopPropagation", "ContinuePropagation"}

CheckResults == {"true", "false", "error"}

\* no callback has ended yet in the worker's pass
NoLast == [gi |-> 0, hi |-> 0, outcome |-> NoValue, rest |-> 0, more |-> FALSE]

\* a worker between two updates; packet is the type of the update it works on, table
\* the object its pass iterates, (gi, hi) its place in it, last the latest callback
\* of the pass: where it was, how it ended, how many handlers came after it in its
\* group and whether one came after it in the table (last outlives the pass, up to
\* the next update, only when one did), args what the callback in progress is called with
IdleWorker ==
    [pc |-> "get", packet |-> NoValue, gi |-> 0, hi |-> 0, table |-> << >>, last |-> NoLast,
     args |-> << >>]

InPass(wk) == wk.pc \in {"pass", "call"}

\* the mutant of LocksTaken: only the first lock of locks_list is acquired
LocksTakenFirstOnly(locks) == IF Len(locks) > 0 THEN 1 ELSE 0

\* "for lock in self.locks_list: await lock.acquire()": how many locks fn acquires
LocksTaken(locks) == Len(locks)

\* the mutant of LocksReleased: fn ends without releasing the locks it took
LocksReleasedNone(locks) == 0

\* "finally: for lock in self.locks_list: lock.release()": how many locks fn releases
LocksReleased(locks) == LocksTaken(locks)

\* the mutant of PassEndLocks: the worker leaves the pass without releasing its lock
PassEndLocksKept(locks, w) == locks

\* leaving "async with lock": the worker's lock is released
PassEndLocks(locks, w) == LockRelease(locks, w)

DispInit ==
    /\ phase = "new"
    /\ locks_list = << >>
    /\ groups = << >>
    /\ workers = << >>
    /\ muts = << >>
    /\ nputs = 0

nonDispVars == <<cacheVars, peerVars, xferVars, sideVars, gapVars, skip_updates, storage_state, hu>>

\* updates_queue.put_nowait((update, users, chats)) by handle_updates or recover_gaps;
\* of the packet the dispatcher reads the update's type
PutUpdate(kind) ==
    /\ nputs < MaxUpdates
    /\ updates_queue' = Append(updates_queue, kind)
    /\ nputs' = nputs + 1
    /\ UNCHANGED <<phase, locks_list, groups, workers, muts>>
    /\ UNCHANGED nonDispVars

\* Dispatcher.start with no_updates off: one lock and one handler_worker task per
\* worker, then "if not self.client.skip_updates: await self.client.recover_gaps()":
\* recover_gaps is called and is at its first await, the reading of the stored states
DispatcherStart ==
    /\ phase = "new"
    /\ phase' = "started"
    /\ locks_list' = locks_list \o [w \in Workers |-> FreeLock]
    /\ workers' = [w \in Workers |-> IdleWorker]
    /\ rg' = IF skip_updates THEN rg ELSE [rg EXCEPT !.pc = "called"]
    /\ UNCHANGED <<groups, muts, nputs, updates_queue>>
    /\ UNCHANGED <<cacheVars, peerVars, xferVars, sideVars, skip_updates, storage_state, hu, server_pts, server_honest>>

\* the mutant of QueueAfterStop: the Nones are put in front of the queued updates
QueueAfterStopInFront(q) == [w \in Workers |-> NoValue] \o q

\* "for i in range(self.client.workers): self.updates_queue.put_nowait(None)"
QueueAfterStop(q) == q \o [w \in Workers |-> NoValue]

\* Dispatcher.stop up to its first await: one None per worker is put on the queue
DispatcherStop ==
    /\ phase = "started"
    /\ phase' = "stopping"
    /\ updates_queue' = QueueAfterStop(updates_queue)
    /\ UNCHANGED <<locks_list, groups, workers, muts, nputs>>
    /\ UNCHANGED nonDispVars

\* Dispatcher.stop after "for i in self.handler_worker_tasks: await i"
DispatcherStopped(clear) ==
    /\ phase = "stopping"
    /\ \A w \in DOMAIN workers : workers[w].pc = "done"
    /\ phase' = "stopped"
    /\ workers' = IF clear THEN << >> ELSE workers
    /\ groups' = IF clear THEN << >> ELSE groups
    /\ UNCHANGED <<locks_list, muts, nputs, updates_queue>>
    /\ UNCHANGED nonDispVars

\* the worker w has left the loops over the table: "async with lock" is left, and
\* the worker is in "except pyrogram.StopPropagation: pass" or back at the queue
LeavePass(w, locks, wk) ==
    /\ locks_list' = PassEndLocks(locks, w)
    /\ workers' = [workers EXCEPT ![w] =
                     [IdleWorker EXCEPT
                        !.pc = IF wk.last.outcome = "StopPropagation" THEN "stop" ELSE "get",
                        !.last = IF wk.last.more THEN wk.last ELSE NoLast]]

\* the worker w is at position pos of its pass, or leaves the pass at NoPos
MoveTo(w, locks, wk, pos) ==
    IF pos = NoPos
    THEN LeavePass(w, locks, wk)
    ELSE /\ locks_list' = locks
         /\ workers' = [workers EXCEPT ![w] = [wk EXCEPT !.pc = "pass",
                                                          !.gi = pos[1], !.hi = pos[2]]]

\* the worker w, holding its lock, starts the loops over the table
EnterPass(w, locks) ==
    MoveTo(w, locks, [workers[w] EXCEPT !.table = groups, !.last = NoLast],
           NextPos(groups, 1, 1))

\* the mutant of QueueAfterGet: get returns the first packet and leaves it queued
QueueAfterGetPeek(q) == q

\* asyncio.Queue.get: the first packet is removed from the queue
QueueAfterGet(q) == Tail(q)

\* "packet = await self.updates_queue.get()", the None test and the parser call;
\* parse_ok = FALSE: the parser raised, which the outer "except Exception" logs
WorkerGet(w, parse_ok) ==
    /\ w \in DOMAIN workers
    /\ workers[w].pc \in {"get", "stop"}
    /\ updates_queue # << >>
    /\ updates_queue' = QueueAfterGet(updates_queue)
    /\ LET packet == Head(updates_queue)
       IN  IF packet = NoValue
           THEN /\ parse_ok
                /\ workers' = [workers EXCEPT ![w] = [IdleWorker EXCEPT !.pc = "done"]]
           ELSE /\ (HandlerTypeOf(packet) = "NoneType" => parse_ok)
                /\ workers' = [workers EXCEPT ![w] =
                                 IF parse_ok
                                 THEN [IdleWorker EXCEPT !.pc = "parsed", !.packet = packet]
                                 ELSE IdleWorker]
    /\ UNCHANGED <<phase, locks_list, groups, muts, nputs>>
    /\ UNCHANGED nonDispVars

\* "async with lock": the lock is taken, or the worker waits for it
WorkerAcquire(w) ==
    /\ w \in DOMAIN workers
    /\ workers[w].pc = "parsed"
    /\ LET locks == LockAcquire(locks_list, w, WorkerTask(w))
       IN  IF locks[w].owner = WorkerTask(w)
           THEN EnterPass(w, locks)
           ELSE /\ locks_list' = locks
                /\ workers' = [workers EXCEPT ![w].pc = "wait"]
    /\ UNCHANGED <<phase, groups, muts, nputs, updates_queue>>
    /\ UNCHANGED nonDispVars

\* the lock was handed to the waiting worker
WorkerWake(w) ==
    /\ w \in DOMAIN workers
    /\ workers[w].pc = "wait"
    /\ locks_list[w].owner = WorkerTask(w)
    /\ EnterPass(w, locks_list)
    /\ UNCHANGED <<phase, groups, muts, nputs, updates_queue>>
    /\ UNCHANGED nonDispVars

\* one handler of the pass up to its callback: the isinstance tests and handler.check;
\* a handler of another type, a check that is false and a check that raised "continue"
WorkerCheck(w, result) ==
    /\ w \in DOMAIN workers
    /\ workers[w].pc = "pass"
    /\ LET wk    == workers[w]
           entry == wk.table[wk.gi].handlers[wk.hi]
       IN  IF IsCandidate(entry.handler, wk.packet)
           THEN IF result = "true"
                THEN /\ workers' = [workers EXCEPT ![w].pc = "call",
                                                   ![w].args = ArgsFor(entry.handler, wk.packet)]
                     /\ locks_list' = locks_list
                ELSE MoveTo(w, locks_list, wk, NextPos(wk.table, wk.gi, wk.hi + 1))
           ELSE /\ result = "false"
                /\ MoveTo(w, locks_list, wk, NextPos(wk.table, wk.gi, wk.hi + 1))
    /\ UNCHANGED <<phase, groups, muts, nputs, updates_queue>>
    /\ UNCHANGED nonDispVars

\* the callback of the handler at the worker's position ends with outcome
WorkerCallback(w, outcome) ==
    /\ w \in DOMAIN workers
    /\ workers[w].pc = "call"
    /\ LET wk    == workers[w]
           ended == [wk EXCEPT !.args = << >>,
                               !.last = [gi |-> wk.gi, hi |-> wk.hi, outcome |-> outcome,
                                   rest |-> Len(wk.table[wk.gi].handlers) - wk.hi,
                                   more |-> NextPos(wk.table, wk.gi, wk.hi + 1) # NoPos]]
           next  == AfterCallback(outcome)
       IN  MoveTo(w, locks_list, ended,
                  CASE next = "end_pass"     -> NoPos
                    [] next = "next_handler" -> NextPos(wk.table, wk.gi, wk.hi + 1)
                    [] OTHER                 -> NextPos(wk.table, wk.gi + 1, 1))
    /\ UNCHANGED <<phase, groups, muts, nputs, updates_queue>>
    /\ UNCHANGED nonDispVars

\* add_handler(handler, group) / remove_handler(handler, group): the task fn is created
HandlerCall(op, h, g) ==
    /\ Len(muts) < MaxCalls
    /\ muts' = Append(muts, [op |-> op, handler |-> h, group |-> g, pc |-> "new", li |-> 1])
    /\ UNCHANGED <<phase, locks_list, groups, workers, nputs, updates_queue>>
    /\ UNCHANGED nonDispVars

RECURSIVE MutRun(_, _, _)
\* fn's acquire loop from lock li on, up to the first lock it has to wait for
MutRun(locks, j, li) ==
    IF li > LocksTaken(locks)
    THEN [locks |-> locks, li |-> li, blocked |-> FALSE]
    ELSE LET after == LockAcquire(locks, li, MutTask(j))
         IN  IF after[li].owner = MutTask(j)
             THEN MutRun(after, j, li + 1)
             ELSE [locks |-> after, li |-> li, blocked |-> TRUE]

\* the task fn has ended, with its work done or with remove_handler's ValueError
Finished(op, pc) == [op |-> op, handler |-> NoValue, group |-> 0, pc |-> pc, li |-> 0]

\* fn from lock li on: it waits, or it holds the locks and runs its try / finally
MutContinue(j, li) ==
    LET run == MutRun(locks_list, j, li)
        m   == muts[j]
    IN  IF run.blocked
        THEN /\ locks_list' = run.locks
             /\ muts' = [muts EXCEPT ![j].pc = "waiting", ![j].li = run.li]
             /\ groups' = groups
        ELSE /\ locks_list' = ReleaseAll(run.locks, [i \in 1..LocksReleased(run.locks) |-> i])
             /\ IF m.op = "add"
                THEN /\ groups' = AddToGroup(groups, m.group, [handler |-> m.handler, call |-> j])
                     /\ muts' = [muts EXCEPT ![j] = Finished(m.op, "done")]
                ELSE /\ groups' = RemoveFromGroup(groups, m.group, m.handler)
                     /\ muts' = [muts EXCEPT ![j] =
                                    Finished(m.op, IF RemoveFails(groups, m.group, m.handler)
                                                   THEN "failed" ELSE "done")]

\* the task fn is run for the first time; tasks start in the order they were created
MutatorStart(j) ==
    /\ j \in 1..Len(muts)
    /\ muts[j].pc = "new"
    /\ \A i \in 1..(j - 1) : muts[i].pc # "new"
    /\ MutContinue(j, 1)
    /\ UNCHANGED <<phase, workers, nputs, updates_queue>>
    /\ UNCHANGED nonDispVars

\* the lock fn waited for was handed to it
MutatorWake(j) ==
    /\ j \in 1..Len(muts)
    /\ muts[j].pc = "waiting"
    /\ locks_list[muts[j].li].owner = MutTask(j)
    /\ MutContinue(j, muts[j].li + 1)
    /\ UNCHANGED <<phase, workers, nputs, updates_queue>>
    /\ UNCHANGED nonDispVars

WorkerStep(w) ==
    \/ \E ok \in BOOLEAN : WorkerGet(w, ok)
    \/ WorkerAcquire(w)
    \/ WorkerWake(w)
    \/ \E r \in CheckResults : WorkerCheck(w, r)
    \/ \E o \in CallbackOutcomes : WorkerCallback(w, o)

MutatorStep(j) == MutatorStart(j) \/ MutatorWake(j)

DispNext ==
    \/ \E k \in UpdateKinds : PutUpdate(k)
    \/ DispatcherStart
    \/ DispatcherStop
    \/ \E c \in BOOLEAN : DispatcherStopped(c)
    \/ \E op \in {"add", "remove"}, h \in Handlers, g \in GroupNumbers : HandlerCall(op, h, g)
    \/ \E w \in Workers : \E ok \in BOOLEAN : WorkerGet(w, ok)
    \/ \E w \in Workers : WorkerAcquire(w)
    \/ \E w \in Workers : WorkerWake(w)
    \/ \E w \in Workers, r \in CheckResults : WorkerCheck(w, r)
    \/ \E w \in Workers, o \in CallbackOutcomes : WorkerCallback(w, o)
    \/ \E j \in 1..MaxCalls : MutatorStart(j)
    \/ \E j \in 1..MaxCalls : MutatorWake(j)

(***************************************************************************)
(* Client.fetch_peers (pyrogram/client.py).  The entities are raw objects  *)
(* kept as records; an attribute a raw type does not have reads as the     *)
(* default getattr gives it (min) or is left at its empty value.           *)
(***************************************************************************)
MaxPeers == 2

PeerIds == {1, 2}

\* the raw types fetch_peers tests for, and one it does not (UserEmpty)
KnownKinds == {"User", "Chat", "ChatForbidden", "Channel", "ChannelForbidden"}

PeerKinds == KnownKinds \cup {"UserEmpty"}

\* username / usernames as the server sends them: one of the two, or neither
NameForms == {[username |-> "Bob", usernames |-> << >>],
              [username |-> "", usernames |-> <<"Al", "Bo">>],
              [username |-> "", usernames |-> << >>]}

NoNames == [username |-> "", usernames |-> << >>]

Entity(kind, id, min, flag, names) ==
    [kind |-> kind, id |-> id, min |-> min, flag |-> flag,
     access_hash |-> IF kind \in {"User", "Channel", "ChannelForbidden"} THEN 10 + id ELSE 0,
     phone |-> IF kind = "User" /\ ~flag THEN "555" ELSE NoValue,
     username |-> names.username, usernames |-> names.usernames]

\* flag is User.bot, Channel.broadcast, ChannelForbidden.broadcast
Entities ==
    {Entity(k, id, m, f, n) : k \in {"User", "Channel"}, id \in PeerIds, m \in BOOLEAN,
                              f \in BOOLEAN, n \in NameForms}
    \cup {Entity("ChannelForbidden", id, FALSE, f, NoNames) : id \in PeerIds, f \in BOOLEAN}
    \cup {Entity(k, id, FALSE, FALSE, NoNames) : k \in {"Chat", "ChatForbidden", "UserEmpty"},
                                                 id \in PeerIds}

PeerLists == UNION {[1..n -> Entities] : n \in 0..MaxPeers}

\* str.lower on the names used here
Lower(name) ==
    CASE name = "Bob" -> "bob"
      [] name = "Al" -> "al"
      [] name = "Bo" -> "bo"
      [] OTHER -> name

HasMinIgnored(peer) == FALSE

\* getattr(peer, "min", False)
HasMin(peer) == peer.min

\* the if / elif on peer.username and peer.usernames
UsernamesOf(peer) ==
    IF peer.username # "" THEN <<Lower(peer.username)>>
    ELSE [i \in 1..Len(peer.usernames) |-> Lower(peer.usernames[i])]

PeerIdOf(peer) ==
    CASE peer.kind = "User" -> peer.id
      [] peer.kind \in {"Chat", "ChatForbidden"} -> 0 - peer.id
      [] OTHER -> GetChannelId(peer.id)

PeerTypeOf(peer) ==
    CASE peer.kind = "User" -> IF peer.flag THEN "bot" ELSE "user"
      [] peer.kind \in {"Chat", "ChatForbidden"} -> "group"
      [] OTHER -> IF peer.flag THEN "channel" ELSE "supergroup"

\* the tuple appended to parsed_peers
PeerRow(peer) ==
    [peer_id |-> PeerIdOf(peer), access_hash |-> peer.access_hash,
     peer_type |-> PeerTypeOf(peer), phone_number |-> peer.phone]

\* the tuple appended to parsed_usernames
UsernameRow(peer) ==
    [peer_id |-> PeerIdOf(peer),
     usernames |-> IF peer.kind \in {"User", "Channel"} THEN UsernamesOf(peer) ELSE << >>]

FetchStart == [is_min |-> FALSE, parsed_peers |-> << >>, parsed_usernames |-> << >>]

RECURSIVE FetchPeersLoop(_, _)
\* the for loop of fetch_peers over the peers left, acc holding its three locals
FetchPeersLoop(peers, acc) ==
    IF peers = << >> THEN acc
    ELSE LET peer == Head(peers) IN
         IF HasMin(peer)
         THEN FetchPeersLoop(Tail(peers), [acc EXCEPT !.is_min = TRUE])
         ELSE IF peer.kind \notin KnownKinds
         THEN FetchPeersLoop(Tail(peers), acc)
         ELSE FetchPeersLoop(Tail(peers),
                  [acc EXCEPT !.parsed_peers = Append(@, PeerRow(peer)),
                              !.parsed_usernames = Append(@, UsernameRow(peer))])

FetchIdle == [pc |-> "idle", peers |-> << >>, usernames |-> << >>, result |-> FALSE]

\* fetch_peers(peers_arg): the loop, storage.update_peers(parsed_peers),
\* storage.update_usernames(parsed_usernames), return is_min
FetchPeers ==
    /\ fetched.pc = "idle"
    /\ LET acc == FetchPeersLoop(peers_arg, FetchStart) IN
       fetched' = [pc |-> "done", peers |-> acc.parsed_peers,
                   usernames |-> acc.parsed_usernames, result |-> acc.is_min]
    /\ UNCHANGED <<peers_arg, xferVars>>
    /\ UNCHANGED <<cacheVars, updVars, gapVars, dispVars, sideVars>>

PeerNext == FetchPeers

PeerInit ==
    /\ peers_arg \in PeerLists
    /\ fetched = FetchIdle

PeerIdle ==
    /\ peers_arg = << >>
    /\ fetched = FetchIdle

(***************************************************************************)
(* Transfers (pyrogram/client.py): Client.handle_download driving the      *)
(* async generator Client.get_file, and the upload side, save_file.  A     *)
(* step runs a task from one suspension point to the next: acquiring a     *)
(* free asyncio.Semaphore does not suspend, a request to the media session *)
(* does.  A file is kept as the number of chunks written to it.            *)
(***************************************************************************)
NTransfers == 2

MaxTransmissions == 2

MaxChunks == 2

Transfers == 1..NTransfers

NoTransfer ==
    [kind |-> "none", pc |-> "new", in_memory |-> FALSE, written |-> 0, temp |-> FALSE,
     final |-> FALSE, complete |-> FALSE, failed |-> FALSE, result |-> "pending"]

\* how a request of get_file to the media session can end: a full chunk, the last
\* (short) chunk, a full chunk whose progress callback raises StopTransmission, an
\* error, a flood wait, the cancellation of the task
GetFileAnswers == {"chunk", "last", "stop", "error", "flood", "cancelled"}

\* the except clauses of get_file: StopTransmission and the flood waits are raised
\* again, CancelledError is no Exception and passes, any other Exception is logged
\* and the generator ends as if the file were finished
GetFileRaises(answer) ==
    CASE answer = "stop" -> "StopTransmission"
      [] answer = "flood" -> "FloodWait"
      [] answer = "cancelled" -> "CancelledError"
      [] OTHER -> NoValue

\* handle_download after its async for has ended, raised being what get_file raised
\* (NoValue when the generator just ended): the except BaseException branch removes
\* the temporary file and returns None or raises again, the else branch returns the
\* file object or moves the temporary file to its final name and returns the path
AfterGetFile(tr, raised) ==
    IF raised # NoValue
    THEN [tr EXCEPT !.pc = "done", !.temp = FALSE,
                    !.result = IF raised \in {"CancelledError", "FloodWait"} THEN raised
                               ELSE "None"]
    ELSE IF tr.in_memory
    THEN [tr EXCEPT !.pc = "done", !.result = "file"]
    ELSE [tr EXCEPT !.pc = "done", !.temp = FALSE, !.final = TRUE, !.result = "file_path"]

\* handle_download(packet): the file is opened, the first step of the generator
\* reaches "async with self.get_file_semaphore" and, the semaphore free, the first
\* request
HandleDownload(t, in_memory) ==
    /\ transfers[t].kind = "none"
    /\ LET tr == [NoTransfer EXCEPT !.kind = "download", !.in_memory = in_memory,
                                    !.temp = ~in_memory] IN
       IF get_file_semaphore > 0
       THEN /\ get_file_semaphore' = get_file_semaphore - 1
            /\ transfers' = [transfers EXCEPT ![t] = [tr EXCEPT !.pc = "request"]]
       ELSE /\ get_file_semaphore' = get_file_semaphore
            /\ transfers' = [transfers EXCEPT ![t] = [tr EXCEPT !.pc = "waiting"]]
    /\ UNCHANGED <<max_concurrent_transmissions, save_file_semaphore, peerVars>>
    /\ UNCHANGED <<cacheVars, updVars, gapVars, dispVars, sideVars>>

\* a download waiting in Semaphore.acquire gets a permit
GetFileEnter(t) ==
    /\ transfers[t].kind = "download"
    /\ transfers[t].pc = "waiting"
    /\ get_file_semaphore > 0
    /\ get_file_semaphore' = get_file_semaphore - 1
    /\ transfers' = [transfers EXCEPT ![t].pc = "request"]
    /\ UNCHANGED <<max_concurrent_transmissions, save_file_semaphore, peerVars>>
    /\ UNCHANGED <<cacheVars, updVars, gapVars, dispVars, sideVars>>

\* one request of get_file is answered.  A chunk is yielded and written by
\* handle_download, then the progress callback runs; a full chunk is followed by
\* the next request, everything else leaves the "async with" (the permit goes
\* back) and ends the async for of handle_download
GetFileAnswer(t, answer) ==
    /\ transfers[t].kind = "download"
    /\ transfers[t].pc = "request"
    /\ answer \in {"chunk", "stop"} => transfers[t].written + 1 < MaxChunks
    /\ LET tr == transfers[t]
           wrote == IF answer \in {"chunk", "last", "stop"}
                    THEN [tr EXCEPT !.written = @ + 1, !.complete = (answer = "last")]
                    ELSE [tr EXCEPT !.failed = (answer = "error")]
       IN IF answer = "chunk"
          THEN /\ transfers' = [transfers EXCEPT ![t] = wrote]
               /\ get_file_semaphore' = get_file_semaphore
          ELSE /\ transfers' = [transfers EXCEPT ![t] = AfterGetFile(wrote, GetFileRaises(answer))]
               /\ get_file_semaphore' = get_file_semaphore + 1
    /\ UNCHANGED <<max_concurrent_transmissions, save_file_semaphore, peerVars>>
    /\ UNCHANGED <<cacheVars, updVars, gapVars, dispVars, sideVars>>

\* save_file: "async with self.save_file_semaphore", then the parts are sent
SaveFile(t) ==
    /\ transfers[t].kind = "none"
    /\ LET tr == [NoTransfer EXCEPT !.kind = "upload"] IN
       IF save_file_semaphore > 0
       THEN /\ save_file_semaphore' = save_file_semaphore - 1
            /\ transfers' = [transfers EXCEPT ![t] = [tr EXCEPT !.pc = "saving"]]
       ELSE /\ save_file_semaphore' = save_file_semaphore
            /\ transfers' = [transfers EXCEPT ![t] = [tr EXCEPT !.pc = "waiting"]]
    /\ UNCHANGED <<max_concurrent_transmissions, get_file_semaphore, peerVars>>
    /\ UNCHANGED <<cacheVars, updVars, gapVars, dispVars, sideVars>>

\* an upload waiting in Semaphore.acquire gets a permit
SaveFileEnter(t) ==
    /\ transfers[t].kind = "upload"
    /\ transfers[t].pc = "waiting"
    /\ save_file_semaphore > 0
    /\ save_file_semaphore' = save_file_semaphore - 1
    /\ transfers' = [transfers EXCEPT ![t].pc = "saving"]
    /\ UNCHANGED <<max_concurrent_transmissions, get_file_semaphore, peerVars>>
    /\ UNCHANGED <<cacheVars, updVars, gapVars, dispVars, sideVars>>

\* the upload ends and leaves the "async with"
SaveFileEnd(t) ==
    /\ transfers[t].kind = "upload"
    /\ transfers[t].pc = "saving"
    /\ save_file_semaphore' = save_file_semaphore + 1
    /\ transfers' = [transfers EXCEPT ![t].pc = "done", ![t].result = "InputFile"]
    /\ UNCHANGED <<max_concurrent_transmissions, get_file_semaphore, peerVars>>
    /\ UNCHANGED <<cacheVars, updVars, gapVars, dispVars, sideVars>>

XferNext ==
    \/ \E t \in Transfers, m \in BOOLEAN : HandleDownload(t, m)
    \/ \E t \in Transfers : GetFileEnter(t)
    \/ \E t \in Transfers, a \in GetFileAnswers : GetFileAnswer(t, a)
    \/ \E t \in Transfers : SaveFile(t)
    \/ \E t \in Transfers : SaveFileEnter(t)
    \/ \E t \in Transfers : SaveFileEnd(t)

\* Client.__init__: both semaphores are made with max_concurrent_transmissions permits
XferInit ==
    /\ max_concurrent_transmissions \in 1..MaxTransmissions
    /\ get_file_semaphore = max_concurrent_transmissions
    /\ save_file_semaphore = max_concurrent_transmissions
    /\ transfers = [t \in Transfers |-> NoTransfer]

XferIdle ==
    /\ max_concurrent_transmissions = 1
    /\ get_file_semaphore = max_concurrent_transmissions
    /\ save_file_semaphore = max_concurrent_transmissions
    /\ transfers = [t \in Transfers |-> NoTransfer]

(***************************************************************************)
(* Client.updates_watchdog (pyrogram/client.py).  Time is counted in ticks *)
(* of the clock datetime.now() reads.  The timeout of asyncio.wait_for     *)
(* fires when the interval is over, which makes the watchdog task ready to *)
(* run; the task runs in a later step of the event loop, and other tasks   *)
(* that are ready may run before it.  The clock does not move while a task *)
(* is ready to run.                                                        *)
(***************************************************************************)
MaxTime == 6

\* UPDATES_WATCHDOG_INTERVAL, in ticks
WatchdogInterval == 2

WdNew == [pc |-> "new", started |-> 0, polls |-> 0]

\* the top of "while True": wait_for(self.updates_watchdog_event.wait(), INTERVAL)
\* starts, or returns at once because the event is set, which is the "else: break"
WatchdogWaits(w) ==
    IF updates_watchdog_event
    THEN [w EXCEPT !.pc = "ended"]
    ELSE [w EXCEPT !.pc = "waiting", !.started = now]

\* "datetime.now() - self.last_update_time > timedelta(seconds=INTERVAL)"
IdleTooLong(t, last) == t - last > WatchdogInterval

\* the updates_watchdog task is started
WatchdogStart ==
    /\ wd.pc = "new"
    /\ wd' = WatchdogWaits(wd)
    /\ UNCHANGED <<now, last_update_time, updates_watchdog_event, gfVars, msVars>>
    /\ UNCHANGED <<cacheVars, updVars, gapVars, dispVars, peerVars, xferVars>>

\* the clock moves on by one tick
Tick ==
    /\ now < MaxTime
    /\ wd.pc \notin {"timed_out", "woken"}
    /\ wd.pc = "waiting" => now < wd.started + WatchdogInterval
    /\ now' = now + 1
    /\ UNCHANGED <<last_update_time, updates_watchdog_event, wd, gfVars, msVars>>
    /\ UNCHANGED <<cacheVars, updVars, gapVars, dispVars, peerVars, xferVars>>

\* the timeout of wait_for fires: the watchdog task will resume with TimeoutError
TimerFires ==
    /\ wd.pc = "waiting"
    /\ now = wd.started + WatchdogInterval
    /\ wd' = [wd EXCEPT !.pc = "timed_out"]
    /\ UNCHANGED <<now, last_update_time, updates_watchdog_event, gfVars, msVars>>
    /\ UNCHANGED <<cacheVars, updVars, gapVars, dispVars, peerVars, xferVars>>

\* updates_watchdog_event.set() by the stopping client: a watchdog that waits will
\* resume with the result of the wait; one whose timeout has fired already resumes
\* with TimeoutError all the same
EventSet ==
    /\ ~updates_watchdog_event
    /\ updates_watchdog_event' = TRUE
    /\ wd' = IF wd.pc = "waiting" THEN [wd EXCEPT !.pc = "woken"] ELSE wd
    /\ UNCHANGED <<now, last_update_time, gfVars, msVars>>
    /\ UNCHANGED <<cacheVars, updVars, gapVars, dispVars, peerVars, xferVars>>

\* the watchdog task resumes from wait_for: "else: break" after the event,
\* "except asyncio.TimeoutError: pass" and the test of last_update_time after the
\* timeout, then the GetState request or the next wait
WatchdogResumes ==
    /\ wd.pc \in {"timed_out", "woken"}
    /\ wd' = IF wd.pc = "woken"
             THEN [wd EXCEPT !.pc = "ended"]
             ELSE IF IdleTooLong(now, last_update_time)
             THEN [wd EXCEPT !.pc = "polling", !.polls = @ + 1]
             ELSE WatchdogWaits(wd)
    /\ UNCHANGED <<now, last_update_time, updates_watchdog_event, gfVars, msVars>>
    /\ UNCHANGED <<cacheVars, updVars, gapVars, dispVars, peerVars, xferVars>>

\* "await self.invoke(raw.functions.updates.GetState())" ends: with an answer, after
\* which the loop goes round, or with an error, which ends the task
GetStateEnds(ok) ==
    /\ wd.pc = "polling"
    /\ wd' = IF ok THEN WatchdogWaits(wd) ELSE [wd EXCEPT !.pc = "raised"]
    /\ UNCHANGED <<now, last_update_time, updates_watchdog_event, gfVars, msVars>>
    /\ UNCHANGED <<cacheVars, updVars, gapVars, dispVars, peerVars, xferVars>>

\* the watchdog, the clock, the stopping client, and handle_updates called with an
\* UpdateShort (its packet is taken off the queue by a worker)
WdNext ==
    \/ WatchdogStart
    \/ Tick
    \/ TimerFires
    \/ EventSet
    \/ WatchdogResumes
    \/ \E ok \in BOOLEAN : GetStateEnds(ok)
    \/ \E u \in InnerUpdates : HandleUpdateShort(u)
    \/ QueueGet

\* Client.__init__: the event is clear, last_update_time is the time of construction
WdIdle ==
    /\ now = 0
    /\ last_update_time = 0
    /\ updates_watchdog_event = FALSE
    /\ wd = WdNew

(***************************************************************************)
(* Client.get_file: the chunk loop of one call, on the direct path and on  *)
(* the CDN path.  A chunk is a sequence of parts; ChunkSize parts make a   *)
(* full chunk, and one hash of the origin server covers HashLimit parts.   *)
(***************************************************************************)
ChunkSize == 2
HashLimit == 1
MaxLimit == 2
Parts == {"a", "b"}
Chunks == UNION {[1..n -> Parts] : n \in 0..ChunkSize}
Limits == (0 - 1)..MaxLimit

\* total = abs(limit) or (1 << 31) - 1
Total(limit) ==
    LET a == IF limit < 0 THEN 0 - limit ELSE limit
    IN  IF a # 0 THEN a ELSE 2147483647

\* s[from:to] of Python, for 0 <= from <= to
Slice(s, from, to) ==
    LET lo == IF from < Len(s) THEN from ELSE Len(s)
        hi == IF to < Len(s) THEN to ELSE Len(s)
    IN  [i \in 1..(hi - lo) |-> s[lo + i]]

\* aes.ctr256_decrypt: a stream cipher, every part is decrypted in its place
Decrypt(chunk) == [i \in 1..Len(chunk) |-> IF chunk[i] = "a" THEN "A" ELSE "B"]

\* sha256(...).digest(), taken as free of collisions
Sha256(s) == <<"sha256", s>>

Digests == {Sha256(s) : s \in {<< >>, <<"A">>, <<"B">>}}
HashLists == UNION {[1..n -> Digests] : n \in 0..ChunkSize}

\* the mutant of HashesMatch: only the first hash is compared
HashesMatchFirst(decrypted, hashes) ==
    Len(hashes) = 0 \/ hashes[1] = Sha256(Slice(decrypted, 0, HashLimit))

\* for i, h in enumerate(hashes): the check of h.hash against the sha256 of
\* decrypted_chunk[h.limit * i: h.limit * (i + 1)] passes for every h
HashesMatch(decrypted, hashes) ==
    \A i \in 0..(Len(hashes) - 1) :
        hashes[i + 1] = Sha256(Slice(decrypted, HashLimit * i, HashLimit * (i + 1)))

\* some hash that the origin server supplied for the chunk differs from the sha256 of
\* the part of the decrypted chunk at the place of the hash
Mismatched(chunk, hashes) ==
    \E i \in 1..Len(hashes) :
        hashes[i] # Sha256(IF i <= Len(chunk) THEN <<Decrypt(chunk)[i]>> ELSE << >>)

\* no call is running; short and bad record what has happened in the call: a chunk
\* shorter than the chunk size was yielded, a hash that does not match was supplied
GfNew ==
    [pc |-> "idle", path |-> "none", total |-> 0, current |-> 0, yielded |-> 0,
     chunk |-> << >>, hashes |-> << >>, cdn_session |-> "none",
     short |-> FALSE, bad |-> FALSE]

GfFrame == UNCHANGED <<cacheVars, updVars, gapVars, dispVars, peerVars, xferVars, wdVars, msVars>>

\* the server sends at most MaxChunks full chunks in a call
MayAnswer(chunk) == Len(chunk) = ChunkSize => gf.current < MaxChunks

\* get_file is called and sends the first upload.GetFile
GetFileCall(limit) ==
    /\ gf.pc = "idle"
    /\ gf' = [gf EXCEPT !.pc = "request", !.total = Total(limit)]
    /\ GfFrame

\* the answer to the first upload.GetFile: a File, a FileCdnRedirect (the CDN session
\* is made, unless making its key raises), another type or an exception
FirstAnswer(kind, chunk) ==
    /\ gf.pc = "request"
    /\ kind = "File" => MayAnswer(chunk)
    /\ gf' = CASE kind = "File" -> [gf EXCEPT !.pc = "yield", !.path = "direct", !.chunk = chunk]
               [] kind = "FileCdnRedirect" ->
                      [gf EXCEPT !.pc = "cdn_start", !.path = "cdn", !.cdn_session = "new"]
               [] kind = "FileCdnRedirectNoKey" -> [gf EXCEPT !.pc = "done", !.path = "cdn"]
               [] OTHER -> [gf EXCEPT !.pc = "done"]
    /\ GfFrame

\* if len(chunk) < chunk_size or current >= total: break
LoopEnds(chunk, current, total) == Len(chunk) < ChunkSize \/ current >= total

\* direct path: yield chunk, count it, leave the loop or send the next upload.GetFile
DirectYield ==
    /\ gf.pc = "yield"
    /\ gf' = [gf EXCEPT !.yielded = @ + 1, !.current = @ + 1,
                        !.short = Len(gf.chunk) < ChunkSize,
                        !.pc = IF LoopEnds(gf.chunk, gf.current + 1, gf.total)
                               THEN "done" ELSE "next"]
    /\ GfFrame

\* direct path: the answer to a later upload.GetFile, or an exception
NextAnswer(ok, chunk) ==
    /\ gf.pc = "next"
    /\ ok => MayAnswer(chunk)
    /\ gf' = IF ok THEN [gf EXCEPT !.pc = "yield", !.chunk = chunk]
             ELSE [gf EXCEPT !.pc = "done"]
    /\ GfFrame

\* CDN path: await cdn_session.start()
CdnStart(ok) ==
    /\ gf.pc = "cdn_start"
    /\ gf' = IF ok THEN [gf EXCEPT !.pc = "cdn_request", !.cdn_session = "started"]
             ELSE [gf EXCEPT !.pc = "cdn_stop"]
    /\ GfFrame

\* CDN path: the answer to upload.GetCdnFile: the bytes, CdnFileReuploadNeeded (the
\* origin server is asked to upload the file again) or an exception
CdnAnswer(kind, chunk) ==
    /\ gf.pc = "cdn_request"
    /\ kind = "CdnFile" => MayAnswer(chunk)
    /\ gf' = CASE kind = "CdnFile" -> [gf EXCEPT !.pc = "cdn_hashes", !.chunk = chunk]
               [] kind = "CdnFileReuploadNeeded" -> [gf EXCEPT !.pc = "reupload"]
               [] OTHER -> [gf EXCEPT !.pc = "cdn_stop"]
    /\ GfFrame

\* CDN path: the answer to upload.ReuploadCdnFile: continue, or break on
\* VolumeLocNotFound, or another exception
ReuploadAnswer(ok) ==
    /\ gf.pc = "reupload"
    /\ gf' = [gf EXCEPT !.pc = IF ok THEN "cdn_request" ELSE "cdn_stop"]
    /\ GfFrame

\* CDN path: the answer to upload.GetCdnFileHashes and the check of every hash against
\* the decrypted chunk; a failed check or an exception leaves through the finally
HashesAnswer(ok, hashes) ==
    /\ gf.pc = "cdn_hashes"
    /\ gf' = IF ok
             THEN [gf EXCEPT !.hashes = hashes,
                             !.bad = @ \/ Mismatched(gf.chunk, hashes),
                             !.pc = IF HashesMatch(Decrypt(gf.chunk), hashes)
                                    THEN "cdn_yield" ELSE "cdn_stop"]
             ELSE [gf EXCEPT !.pc = "cdn_stop"]
    /\ GfFrame

\* CDN path: yield decrypted_chunk, count it, leave the loop or ask for the next chunk
CdnYield ==
    /\ gf.pc = "cdn_yield"
    /\ gf' = [gf EXCEPT !.yielded = @ + 1, !.current = @ + 1,
                        !.short = Len(gf.chunk) < ChunkSize,
                        !.pc = IF LoopEnds(gf.chunk, gf.current + 1, gf.total)
                               THEN "cdn_stop" ELSE "cdn_request"]
    /\ GfFrame

\* CDN path: finally: await cdn_session.stop()
CdnStop ==
    /\ gf.pc = "cdn_stop"
    /\ gf' = [gf EXCEPT !.pc = "done", !.cdn_session = "stopped"]
    /\ GfFrame

GfNext ==
    \/ \E limit \in Limits : GetFileCall(limit)
    \/ \E kind \in {"File", "FileCdnRedirect", "FileCdnRedirectNoKey", "other"},
          chunk \in Chunks : FirstAnswer(kind, chunk)
    \/ DirectYield
    \/ \E ok \in BOOLEAN, chunk \in Chunks : NextAnswer(ok, chunk)
    \/ \E ok \in BOOLEAN : CdnStart(ok)
    \/ \E kind \in {"CdnFile", "CdnFileReuploadNeeded", "raises"},
          chunk \in Chunks : CdnAnswer(kind, chunk)
    \/ \E ok \in BOOLEAN : ReuploadAnswer(ok)
    \/ \E ok \in BOOLEAN, hashes \in HashLists : HashesAnswer(ok, hashes)
    \/ CdnYield
    \/ CdnStop

GfIdle == gf = GfNew

(***************************************************************************)
(* Client.get_file: the media session of the file's data center.  Each     *)
(* call holds a slot of get_file_semaphore; the calls interleave at their  *)
(* awaits.                                                                 *)
(***************************************************************************)
NGetters == 2
Getters == 1..NGetters
HomeDc == 1
Dcs == {1, 2}
ImportTries == 3

\* no call is running; found records that the session was taken from media_sessions
\* and ready that the session taken was started and, for a foreign data center,
\* authorized at that moment
GetterNew == [pc |-> "idle", dc |-> 0, session |-> 0, tries |-> 0, found |-> FALSE, ready |-> FALSE]

MsFrame == UNCHANGED <<cacheVars, updVars, gapVars, dispVars, peerVars, xferVars, wdVars, gfVars>>

\* the state of a session is fit for requests of files of data center dc
IsReady(s, dc) == s.started /\ (dc # HomeDc => s.imported)

\* self.media_sessions.get(dc_id); 0 stands for None
MediaSessionsGet(ms, dc) == ms[dc]

\* session = self.media_sessions.get(dc_id); when there is none, the call goes on to
\* make one and awaits the authorization key and the test mode first
Lookup(g, dc) ==
    /\ getters[g].pc = "idle"
    /\ LET s == MediaSessionsGet(media_sessions, dc)
       IN  getters' = [getters EXCEPT ![g] =
               IF s # 0
               THEN [@ EXCEPT !.pc = "request", !.dc = dc, !.session = s, !.found = TRUE,
                              !.ready = IsReady(made[s], dc)]
               ELSE [@ EXCEPT !.pc = "creating", !.dc = dc]]
    /\ UNCHANGED <<media_sessions, made>>
    /\ MsFrame

\* the awaits for the key end: the Session is made and stored in media_sessions, and
\* session.start() is awaited; or making the key raises
Store(g, ok) ==
    /\ getters[g].pc = "creating"
    /\ IF ok
       THEN /\ made' = Append(made, [dc |-> getters[g].dc, started |-> FALSE, imported |-> FALSE])
            /\ media_sessions' = [media_sessions EXCEPT ![getters[g].dc] = Len(made) + 1]
            /\ getters' = [getters EXCEPT ![g] = [@ EXCEPT !.pc = "starting", !.session = Len(made) + 1]]
       ELSE /\ getters' = [getters EXCEPT ![g] = [@ EXCEPT !.pc = "done"]]
            /\ UNCHANGED <<media_sessions, made>>
    /\ MsFrame

\* await session.start() ends; for a foreign data center the authorization is
\* exported and imported next
Started(g, ok) ==
    /\ getters[g].pc = "starting"
    /\ IF ok
       THEN /\ made' = [made EXCEPT ![getters[g].session] = [@ EXCEPT !.started = TRUE]]
            /\ getters' = [getters EXCEPT ![g] =
                   [@ EXCEPT !.pc = IF getters[g].dc # HomeDc THEN "importing" ELSE "request"]]
       ELSE /\ getters' = [getters EXCEPT ![g] = [@ EXCEPT !.pc = "done"]]
            /\ made' = made
    /\ media_sessions' = media_sessions
    /\ MsFrame

\* one round of for _ in range(3): ExportAuthorization and ImportAuthorization;
\* AuthBytesInvalid goes to the next round, and the third one raises
Import(g, ok) ==
    /\ getters[g].pc = "importing"
    /\ IF ok
       THEN /\ made' = [made EXCEPT ![getters[g].session] = [@ EXCEPT !.imported = TRUE]]
            /\ getters' = [getters EXCEPT ![g] = [@ EXCEPT !.pc = "request"]]
       ELSE /\ getters' = [getters EXCEPT ![g] =
                   [@ EXCEPT !.tries = @ + 1,
                             !.pc = IF getters[g].tries + 1 >= ImportTries
                                    THEN "done" ELSE "importing"]]
            /\ made' = made
    /\ media_sessions' = media_sessions
    /\ MsFrame

\* the first upload.GetFile is sent on the session, and the call goes on to its end
Request(g) ==
    /\ getters[g].pc = "request"
    /\ getters' = [getters EXCEPT ![g] = [@ EXCEPT !.pc = "done"]]
    /\ UNCHANGED <<media_sessions, made>>
    /\ MsFrame

MsNext ==
    \E g \in Getters :
        \/ \E dc \in Dcs : Lookup(g, dc)
        \/ \E ok \in BOOLEAN : Store(g, ok)
        \/ \E ok \in BOOLEAN : Started(g, ok)
        \/ \E ok \in BOOLEAN : Import(g, ok)
        \/ Request(g)

\* Client.__init__: media_sessions is empty
MsIdle ==
    /\ media_sessions = [dc \in Dcs |-> 0]
    /\ made = << >>
    /\ getters = [g \in Getters |-> GetterNew]

SideIdle == WdIdle /\ GfIdle /\ MsIdle

(***************************************************************************)
(* Specifications.  Every specification starts from the state after        *)
(* construction; a part that a specification does not move starts idle.    *)
(***************************************************************************)
CacheIdle ==
    /\ capacity = 0
    /\ store = << >>
    /\ lastOp = [op |-> "init", key |-> NoValue, value |-> NoValue, result |-> NoValue,
                had |-> FALSE]
    /\ evicted = << >>

InitCache == CacheInit /\ UpdInit /\ skip_updates = TRUE /\ GapIdle /\ DispInit /\ PeerIdle /\ XferIdle /\ SideIdle

InitUpdates == CacheIdle /\ UpdInit /\ GapIdle /\ DispInit /\ PeerIdle /\ XferIdle /\ SideIdle

InitGaps == CacheIdle /\ GapInit /\ DispInit /\ PeerIdle /\ XferIdle /\ SideIdle

SpecCache == InitCache /\ [][CacheNext]_vars

\* handle_updates is called by the session while the client starts and runs: the
\* calls interleave with Dispatcher.start
UpdatesNext ==
    \/ UpdNext
    \/ DispatcherStart

SpecUpdates == InitUpdates /\ [][UpdatesNext]_vars

SpecGaps == InitGaps /\ [][GapNext]_vars

\* the server answers every request recover_gaps makes, and the storage every call
FairSpecGaps == InitGaps /\ [][GapNext]_vars /\ WF_vars(GapNext)

InitDisp == CacheIdle /\ UpdInit /\ skip_updates = TRUE /\ GapIdle /\ DispInit /\ PeerIdle /\ XferIdle /\ SideIdle

Spec == InitDisp /\ [][DispNext]_vars

MaxHandlers == 2

HandlerLists == UNION {[1..n -> Handlers] : n \in 1..MaxHandlers}

\* the table after add_handler was called, before start, for the handlers hs0 with
\* group 0 and then for the handlers hs1 with group 1
TableOf(hs0, hs1) ==
    <<[group |-> 0,
       handlers |-> [k \in 1..Len(hs0) |-> [handler |-> hs0[k], call |-> k]]],
      [group |-> 1,
       handlers |-> [k \in 1..Len(hs1) |-> [handler |-> hs1[k], call |-> Len(hs0) + k]]]>>

\* the dispatcher of a client whose handlers were all added before it starts
InitPass ==
    /\ CacheIdle /\ UpdInit /\ skip_updates = TRUE /\ GapIdle /\ PeerIdle /\ XferIdle /\ SideIdle
    /\ phase = "new"
    /\ locks_list = << >>
    /\ workers = << >>
    /\ nputs = 0
    /\ \E hs0 \in HandlerLists, hs1 \in HandlerLists :
          /\ groups = TableOf(hs0, hs1)
          /\ muts = [j \in 1..(Len(hs0) + Len(hs1)) |-> Finished("add", "done")]

\* the dispatcher with no add_handler or remove_handler after start: no task but
\* the worker itself asks for a worker's lock, so that no worker waits for it
PassNext ==
    \/ \E k \in UpdateKinds : PutUpdate(k)
    \/ DispatcherStart
    \/ DispatcherStop
    \/ \E c \in BOOLEAN : DispatcherStopped(c)
    \/ \E w \in Workers : \E ok \in BOOLEAN : WorkerGet(w, ok)
    \/ \E w \in Workers : WorkerAcquire(w)
    \/ \E w \in Workers, r \in CheckResults : WorkerCheck(w, r)
    \/ \E w \in Workers, o \in CallbackOutcomes : WorkerCallback(w, o)

SpecPass == InitPass /\ [][PassNext]_vars

\* the dispatcher of a client that added one raw handler, with group 0, before it
\* started (call 0: before the calls that are counted)
InitBusy ==
    /\ CacheIdle /\ UpdInit /\ skip_updates = TRUE /\ GapIdle /\ PeerIdle /\ XferIdle /\ SideIdle
    /\ phase = "new"
    /\ locks_list = << >>
    /\ workers = << >>
    /\ nputs = 0
    /\ groups = <<[group |-> 0, handlers |-> <<[handler |-> "raw", call |-> 0]>>]>>
    /\ muts = << >>

\* the dispatcher fed with updates of a second parsed category as well
TypedNext ==
    \/ DispNext
    \/ PutUpdate("UpdateEditMessage")

SpecTyped == InitDisp /\ [][TypedNext]_vars

InitPeers ==
    CacheIdle /\ UpdInit /\ skip_updates = TRUE /\ GapIdle /\ DispInit /\ PeerInit /\ XferIdle /\ SideIdle

SpecPeers == InitPeers /\ [][PeerNext]_vars

InitTransfers ==
    CacheIdle /\ UpdInit /\ skip_updates = TRUE /\ GapIdle /\ DispInit /\ PeerIdle /\ XferInit /\ SideIdle

SpecTransfers == InitTransfers /\ [][XferNext]_vars

InitGetFile ==
    /\ CacheIdle /\ UpdInit /\ skip_updates = TRUE /\ GapIdle /\ DispInit
    /\ PeerIdle /\ XferIdle /\ SideIdle

\* one call of get_file
SpecGetFile == InitGetFile /\ [][GfNext]_vars

\* every request of the call is answered and the consumer keeps asking for chunks
FairSpecGetFile == SpecGetFile /\ WF_vars(GfNext)

InitSessions ==
    /\ CacheIdle /\ UpdInit /\ skip_updates = TRUE /\ GapIdle /\ DispInit
    /\ PeerIdle /\ XferIdle /\ SideIdle

\* concurrent get_file calls up to the first request on the media session
SpecSessions == InitSessions /\ [][MsNext]_vars

InitWatchdog ==
    CacheIdle /\ UpdInit /\ skip_updates = TRUE /\ GapIdle /\ DispInit /\ PeerIdle /\ XferIdle
        /\ SideIdle

SpecWatchdog == InitWatchdog /\ [][WdNext]_vars

(* The event loop runs every task that is ready: a worker whose await has
   completed goes on, the checks and callbacks of a pass return, and a task fn
   that was created or handed a lock is run. *)
Fairness ==
    /\ \A w \in Workers : WF_vars(WorkerStep(w))
    /\ \A j \in 1..MaxCalls : WF_vars(MutatorStep(j))

FairSpec == InitDisp /\ [][DispNext]_vars /\ Fairness

\* the started dispatcher with raw handlers only, fed with updates of one type
BusyNext ==
    \/ PutUpdate("UpdateChannelTooLong")
    \/ DispatcherStart
    \/ \E op \in {"add", "remove"}, g \in GroupNumbers : HandlerCall(op, "raw", g)
    \/ \E w \in Workers : WorkerGet(w, TRUE)
    \/ \E w \in Workers : WorkerAcquire(w)
    \/ \E w \in Workers : WorkerWake(w)
    \/ \E w \in Workers, r \in CheckResults : WorkerCheck(w, r)
    \/ \E w \in Workers, o \in CallbackOutcomes : WorkerCallback(w, o)
    \/ \E j \in 1..MaxCalls : MutatorStart(j)
    \/ \E j \in 1..MaxCalls : MutatorWake(j)

\* add_handler and remove_handler tasks against passes that have a handler to call
FairSpecBusy == InitBusy /\ [][BusyNext]_vars /\ Fairness

(***************************************************************************)
(* Properties.                                                             *)
(***************************************************************************)

\* C1: an update of Updates.updates for scope S with pts P and pts_count D is accepted
\* (its pts written to the state of S, the update put on the queue) only if the pts
\* stored for S equals P - D at that moment, and an update with P - D below the stored
\* pts is dropped and changes nothing.
C1_AcceptedOnlyWhenContiguous ==
    [][ \A u \in InnerUpdates :
          ( /\ hu.pc = "loop" /\ hu.rest # << >> /\ Head(hu.rest) = u
            /\ hu' # hu
            /\ u.pts # 0
            /\ ScopeOf(u) \in DOMAIN storage_state )
          => LET local    == storage_state[ScopeOf(u)]
                 accepted == \/ updates_queue' = Append(updates_queue, u)
                             \/ storage_state' # storage_state
             IN  /\ accepted => local = u.pts - u.pts_count
                 /\ (u.pts - u.pts_count < local)
                       => (storage_state' = storage_state /\ updates_queue' = updates_queue)
      ]_vars

\* C2: with a server that answers every difference request correctly, the recovery of a
\* scope that was behind ends with the pts recover_gaps holds for that scope (local_pts)
\* equal to the server's pts of that scope.
C2_RecoveryReachesServerPts ==
    server_honest => \A id \in DOMAIN rg.final_pts : rg.final_pts[id] = server_pts[id]

\* C4: for a Cache of capacity C >= 0 the number of stored entries never exceeds C.
C4_NeverAboveCapacity == Len(store) <= capacity

\* C4 witness: an insertion overflowed a cache of capacity >= 2 and the eviction loop ran
C4_Witness == capacity >= 2 /\ lastOp.op = "set" /\ evicted # << >> /\ store # << >>

\* C5 as stated: inserting a new key into a full Cache removes exactly ceil(C/2)+1
\* entries, the oldest ones.
C5_EvictsCeilHalfPlusOne ==
    [][ ( /\ lastOp'.op = "set"
          /\ Len(store) = capacity
          /\ lastOp'.key \notin StoreKeys(store) )
        => LET ins == Append(store, <<lastOp'.key, lastOp'.value>>)
               n   == (capacity + 1) \div 2 + 1
           IN  /\ Len(evicted') = n
               /\ store' = DropFirst(ins, n)
      ]_vars

\* C5 amended: inserting a new key into a Cache that holds C entries removes exactly
\* floor(C/2)+1 entries in that call, and they are the oldest in insertion order.
C5_EvictsFloorHalfPlusOne ==
    [][ ( /\ lastOp'.op = "set"
          /\ Len(store) = capacity
          /\ lastOp'.key \notin StoreKeys(store) )
        => LET ins == Append(store, <<lastOp'.key, lastOp'.value>>)
               n   == capacity \div 2 + 1
           IN  /\ Len(evicted') = n
               /\ evicted' = [i \in 1..n |-> ins[i][1]]
               /\ store' = DropFirst(ins, n)
      ]_vars

\* C5 witness: a full cache of odd capacity 3 took a new key and lost its 2 oldest entries
C5_Witness ==
    /\ capacity = 3 /\ lastOp.op = "set"
    /\ Len(evicted) = 2 /\ Len(store) = 2
    /\ lastOp.key \notin SeqRange(evicted)

(* Dispatcher. *)

\* the group numbers of a table are strictly ascending
Ascending(table) ==
    \A i \in 1..(Len(table) - 1) : table[i].group < table[i + 1].group

\* the handlers of every group stand in the order of their add_handler calls
InCallOrder(table) ==
    \A i \in 1..Len(table) :
        \A k \in 1..(Len(table[i].handlers) - 1) :
            table[i].handlers[k].call < table[i].handlers[k + 1].call

\* position p comes before position q in the iteration over a table
Before(p, q) == p[1] < q[1] \/ (p[1] = q[1] /\ p[2] < q[2])

\* the step is the end of a callback of worker w
CallbackEnds(w) ==
    /\ w \in DOMAIN workers /\ w \in DOMAIN workers'
    /\ workers[w].pc = "call" /\ workers'[w].pc # "call"

\* C3: the group table changes only in a step before and after which no worker is
\* inside a dispatch pass, and a worker inside a pass holds its lock, so that a
\* mutation, which needs every lock, waits for the passes in flight and keeps new
\* passes from starting.
C3_NoMutationDuringPass ==
    [][ /\ \A w \in DOMAIN workers' :
              InPass(workers'[w]) => locks_list'[w].owner = WorkerTask(w)
        /\ groups' # groups =>
              /\ \A w \in DOMAIN workers : ~InPass(workers[w])
              /\ \A w \in DOMAIN workers' : ~InPass(workers'[w]) ]_vars

\* an add or remove waits for the pass of one worker while it holds the lock of
\* another worker, which waits with its update
C3_Witness ==
    \E j \in 1..Len(muts), w \in DOMAIN workers, v \in DOMAIN workers :
        /\ muts[j].pc = "waiting"
        /\ InPass(workers[w]) /\ locks_list[w].owner = WorkerTask(w)
        /\ workers[v].pc = "wait" /\ locks_list[v].owner = MutTask(j)

\* C6 as stated: once a callback has returned normally, no other handler's callback
\* is invoked in that pass.
C6_FirstMatchEndsPass ==
    \A w \in DOMAIN workers :
        workers[w].pc = "call" => workers[w].last.outcome # "return"

\* C6: a pass visits the groups in ascending group number and never goes back,
\* and once a callback has returned normally (or raised an error that is logged)
\* the pass is in a later group: no other handler of that group is invoked, the
\* handlers of the later groups still are.
C6_FirstMatchEndsGroup ==
    \A w \in DOMAIN workers :
        InPass(workers[w]) =>
            /\ Ascending(workers[w].table)
            /\ workers[w].last # NoLast =>
                  Before(<<workers[w].last.gi, workers[w].last.hi>>,
                         <<workers[w].gi, workers[w].hi>>)
            /\ workers[w].last.outcome \in {"return", "error"} =>
                  workers[w].table[workers[w].gi].group
                      > workers[w].table[workers[w].last.gi].group

\* a callback returned, the handler after it in its group was left out and the
\* pass is over
C6_Witness ==
    \E w \in DOMAIN workers :
        /\ workers[w].pc = "get"
        /\ workers[w].last.outcome = "return" /\ workers[w].last.rest > 0

\* C7: a worker whose callback raised StopPropagation is out of the pass: it has
\* released its lock, invokes nothing more for that update, and takes the next
\* update from the queue when there is one.
C7_StopEndsPass ==
    \A w \in DOMAIN workers :
        workers[w].last.outcome = "StopPropagation" =>
            /\ workers[w].pc = "stop"
            /\ locks_list[w].owner # WorkerTask(w)
            /\ updates_queue # << >> => ENABLED WorkerGet(w, TRUE)

\* a callback raised StopPropagation while a handler came after it in the table
C7_Witness ==
    \E w \in DOMAIN workers :
        /\ workers[w].pc = "stop"
        /\ workers[w].last.outcome = "StopPropagation" /\ workers[w].last.more

\* C8: when a callback raises ContinuePropagation and a handler comes after it, the
\* pass goes on with the same update at the next position of the table, which is
\* the next handler of the same group when the group has one.
C8_ContinueTriesNextHandler ==
    [][ \A w \in Workers :
          (CallbackEnds(w) /\ workers'[w].last.outcome = "ContinuePropagation") =>
              /\ workers'[w].pc = "pass"
              /\ workers'[w].packet = workers[w].packet
              /\ workers'[w].table = workers[w].table
              /\ <<workers'[w].gi, workers'[w].hi>>
                    = NextPos(workers[w].table, workers[w].gi, workers[w].hi + 1)
              /\ workers[w].hi < Len(workers[w].table[workers[w].gi].handlers) =>
                    /\ workers'[w].gi = workers[w].gi
                    /\ workers'[w].hi = workers[w].hi + 1 ]_vars

\* the callback of the first handler of a group raised ContinuePropagation and the
\* callback of the second handler of the group is invoked
C8_Witness ==
    \E w \in DOMAIN workers :
        /\ workers[w].pc = "call"
        /\ workers[w].last.outcome = "ContinuePropagation"
        /\ workers[w].gi = workers[w].last.gi /\ workers[w].hi = workers[w].last.hi + 1

\* C9: the group table, and the table every pass iterates, is in ascending group
\* number, and each group lists its handlers in the order of their add_handler calls.
C9_TableOrdered ==
    /\ Ascending(groups) /\ InCallOrder(groups)
    /\ \A w \in DOMAIN workers :
          Ascending(workers[w].table) /\ InCallOrder(workers[w].table)

\* the group of the later add_handler call stands before the group of the earlier one
C9_Witness ==
    /\ Len(groups) = 2
    /\ groups[1].handlers # << >> /\ groups[2].handlers # << >>
    /\ groups[2].handlers[1].call < groups[1].handlers[1].call

\* C10: a pass iterates the table as it is, which holds no handler whose add_handler
\* has not ended; and every add_handler is applied in the end.
C10_AddDeferredThenApplied ==
    /\ [](\A w \in DOMAIN workers :
            InPass(workers[w]) =>
                /\ workers[w].table = groups
                /\ \A j \in 1..Len(muts) :
                      muts[j].pc \in {"new", "waiting"} =>
                          \A i \in 1..Len(groups) :
                              \A k \in 1..Len(groups[i].handlers) :
                                  groups[i].handlers[k].call # j)
    /\ \A j \in 1..MaxCalls :
          (j <= Len(muts) /\ muts[j].op = "add")
              ~> (j <= Len(muts) /\ muts[j].op = "add" /\ muts[j].pc = "done")

\* an add_handler waits for the lock of a worker that is inside a pass
C10_Witness ==
    \E j \in 1..Len(muts), w \in DOMAIN workers :
        /\ muts[j].op = "add" /\ muts[j].pc = "waiting" /\ muts[j].li = w
        /\ InPass(workers[w])

\* the update packets (not the None of stop) that wait on the queue
Queued == Cardinality({i \in 1..Len(updates_queue) : updates_queue[i] # NoValue})

\* the step in which the first packet of the queue, an update, is taken
PacketTaken ==
    /\ updates_queue # << >> /\ Head(updates_queue) # NoValue
    /\ nputs' = nputs /\ phase' = phase
    /\ updates_queue' # updates_queue

\* the workers whose record the step changes
Changed == {w \in DOMAIN workers \cap DOMAIN workers' : workers'[w] # workers[w]}

\* a pass begins for a held packet and ends with the packet let go, once per taking
OnePassPerTaking ==
    \A w \in DOMAIN workers \cap DOMAIN workers' :
        /\ (~InPass(workers[w]) /\ InPass(workers'[w])) =>
              /\ workers[w].pc \in {"parsed", "wait"}
              /\ workers[w].packet # NoValue /\ workers'[w].packet = workers[w].packet
        /\ (InPass(workers[w]) /\ InPass(workers'[w])) =>
              workers'[w].packet = workers[w].packet
        /\ (InPass(workers[w]) /\ ~InPass(workers'[w])) => workers'[w].packet = NoValue
        /\ (workers[w].packet # NoValue /\ workers'[w].packet # workers[w].packet) =>
              workers'[w].packet = NoValue
        /\ (workers[w].packet = NoValue /\ workers'[w].packet # NoValue) => PacketTaken

\* every update put before stop is taken off the queue in the end
EveryPacketTaken ==
    \A n \in 1..MaxUpdates :
        (phase = "started" /\ nputs >= n) ~> (nputs - Queued >= n)

\* C11 as stated: a packet leaves the queue into the hands of exactly one worker,
\* which goes on to its one dispatch pass for it.
C11_TakenOnceAndDispatched ==
    [][ PacketTaken =>
          /\ updates_queue' = Tail(updates_queue)
          /\ \E w \in Workers :
                /\ Changed = {w}
                /\ workers'[w].pc = "parsed"
                /\ workers'[w].packet = Head(updates_queue) ]_vars

\* C11: a packet leaves the queue in one step of one worker, which holds it from
\* then on and runs one dispatch pass for it, or lets it go at once because its
\* parser raised; no packet is held without having been taken off the queue; and
\* every update put before stop is taken.
C11_TakenOnceDispatchedUnlessParserRaises ==
    /\ [][ /\ PacketTaken =>
                /\ updates_queue' = Tail(updates_queue)
                /\ \/ \E w \in Workers :
                         /\ Changed = {w}
                         /\ workers'[w].pc = "parsed"
                         /\ workers'[w].packet = Head(updates_queue)
                   \/ /\ Changed \in {{}} \cup {{w} : w \in Workers}
                      /\ \A w \in Changed : workers'[w] = IdleWorker
           /\ OnePassPerTaking ]_vars
    /\ EveryPacketTaken

\* two workers each hold an update of their own: one is inside its pass, the
\* other has its packet parsed
C11_Witness ==
    \E w \in DOMAIN workers, v \in DOMAIN workers :
        /\ w # v
        /\ InPass(workers[w]) /\ workers[w].packet # NoValue
        /\ workers[v].pc = "parsed" /\ workers[v].packet # NoValue
        /\ nputs = 2 /\ Queued = 0

\* the step is the round of handle_updates' loop for the update u
RoundOf(u) ==
    /\ hu.pc = "loop" /\ hu.rest # << >> /\ Head(hu.rest) = u
    /\ hu' # hu

\* C12: when an update arrives whose pts is the pts already stored for its scope (the
\* same envelope delivered again), it is dropped: the stored state and the
\* dispatcher queue stay as the first delivery left them.
C12_ReplayIsDropped ==
    [][ \A u \in InnerUpdates :
          ( /\ RoundOf(u)
            /\ u.pts # 0
            /\ ScopeOf(u) \in DOMAIN storage_state
            /\ storage_state[ScopeOf(u)] = u.pts )
          => (storage_state' = storage_state /\ updates_queue' = updates_queue)
      ]_vars

\* C13: the pts stored for a scope never goes down, whatever handle_updates receives.
C13_StoredPtsOnlyAdvances ==
    [][ \A id \in DOMAIN storage_state :
          /\ id \in DOMAIN storage_state'
          /\ storage_state'[id] >= storage_state[id] ]_vars

\* C14: whatever the server answers, recover_gaps comes to its end (it returns, or an
\* error it does not catch ends it).
C14_RecoveryTerminates == <>(rg.pc \in {"done", "raised"})

\* the packets recover_gaps has queued for the scope of channel ch (0: the global scope)
QueuedFor(ch) == {i \in 1..Len(updates_queue) : updates_queue[i].channel_id = ch}

\* the event of the server's sequence a queued packet carries
EventOf(packet) == IF packet.kind = "UpdateNewMessage" THEN packet.message ELSE packet.pts

\* no event of a scope is on the queue twice
RecoveredOnce ==
    \A ch \in {0} \cup ChannelIds :
        \A i, j \in QueuedFor(ch) :
            i # j => EventOf(updates_queue[i]) # EventOf(updates_queue[j])

\* the packets of a scope stand on the queue in the order of their pts
RecoveredInPtsOrder ==
    \A ch \in {0} \cup ChannelIds :
        \A i, j \in QueuedFor(ch) :
            i < j => updates_queue[i].pts <= updates_queue[j].pts

\* C15: with a server that answers correctly, every recovered message and update of a
\* scope is put on the queue once, and the packets of a scope enter the queue in the
\* order of their pts.
C15_RecoveredOnceInPtsOrder ==
    server_honest => (RecoveredOnce /\ RecoveredInPtsOrder)

\* C16: when recover_gaps runs again after an abandoned run, the loop of a scope starts
\* from the pts the server had last confirmed for that scope in the abandoned runs.
C16_ResumesFromConfirmedPts ==
    (server_honest /\ rg.pc = "loop" /\ rg.last = NoValue /\ rg.id \in DOMAIN rg.confirmed)
        => rg.local_pts = rg.confirmed[rg.id]

FullEntities == SelectSeq(peers_arg, LAMBDA e : ~e.min /\ e.kind \in KnownKinds)

\* C18: fetch_peers never upserts an entity carrying the minimal flag: once
\* it has returned, the peers and the usernames it handed to storage are, entry by
\* entry and in input order, exactly the non-minimal input entities of a known kind,
\* and it returned true exactly when some input entity was minimal.
C18_MinimalPeersNeverUpserted ==
    fetched.pc = "done" =>
        /\ Len(fetched.peers) = Len(FullEntities)
        /\ Len(fetched.usernames) = Len(FullEntities)
        /\ \A i \in 1..Len(FullEntities) :
              /\ fetched.peers[i].access_hash = FullEntities[i].access_hash
              /\ fetched.peers[i].phone_number = FullEntities[i].phone
              /\ fetched.peers[i].peer_id \in {FullEntities[i].id, 0 - FullEntities[i].id}
              /\ fetched.usernames[i].peer_id = fetched.peers[i].peer_id
        /\ fetched.result = (\E i \in 1..Len(peers_arg) : peers_arg[i].min)

\* a call with a minimal entity first and a full one after it has returned
C18_Witness ==
    /\ fetched.pc = "done"
    /\ Len(peers_arg) = 2
    /\ peers_arg[1].min
    /\ ~peers_arg[2].min
    /\ peers_arg[2].kind = "Channel"
    /\ Len(fetched.peers) = 1
    /\ fetched.result

(***************************************************************************)
(* Transfers                                                               *)
(***************************************************************************)
\* the transfers holding a permit: between entering and leaving the "async with"
InProgress == {t \in Transfers : transfers[t].pc \in {"request", "saving"}}

\* C19: at every moment the number of transfers in progress, uploads and
\* downloads counted together, is at most max_concurrent_transmissions.
C19_TransfersBounded == Cardinality(InProgress) <= max_concurrent_transmissions

\* C20: download_media returns None whenever the download fails: a finished
\* download one of whose chunk requests ended in an error (no flood wait, no
\* cancellation) has returned None and has left no file under the final name.
C20_FailedDownloadReturnsNone ==
    \A t \in Transfers :
        (transfers[t].kind = "download" /\ transfers[t].pc = "done" /\ transfers[t].failed)
            => (transfers[t].result = "None" /\ ~transfers[t].final)

(***************************************************************************)
(* Cache: setting a present key, reading                                   *)
(***************************************************************************)
\* the entries of a store other than the one of key, in their order
Others(st, key) == SelectSeq(st, LAMBDA e : e[1] # key)

\* C30: setting a key that is already in the Cache evicts nothing: the value is
\* replaced and the key becomes the newest entry, the other entries keep their order;
\* reading a key, present or missing, changes neither the contents nor the order and
\* gives the stored value or None; and with capacity >= 1 the key just set is the
\* newest entry and reads back with its new value.
C30_SetPresentKeyEvictsNothing ==
    [][ /\ (lastOp'.op = "set" /\ lastOp'.key \in StoreKeys(store))
            => /\ evicted' = << >>
               /\ Len(store') = Len(store)
               /\ store'[Len(store')] = <<lastOp'.key, lastOp'.value>>
               /\ Others(store', lastOp'.key) = Others(store, lastOp'.key)
        /\ lastOp'.op = "get"
            => /\ store' = store
               /\ lastOp'.result = IF \E i \in 1..Len(store) : store[i][1] = lastOp'.key
                                   THEN (CHOOSE e \in SeqRange(store) : e[1] = lastOp'.key)[2]
                                   ELSE NoValue
        /\ (lastOp'.op = "set" /\ capacity >= 1)
            => /\ store' # << >>
               /\ store'[Len(store')] = <<lastOp'.key, lastOp'.value>>
               /\ \A i \in 1..(Len(store') - 1) : store'[i][1] # lastOp'.key
      ]_vars

\* a full cache took a new value for its oldest key: nothing evicted, the key is
\* now the newest of the three entries
C30_Witness ==
    /\ capacity = 3
    /\ Len(store) = 3
    /\ lastOp.op = "set"
    /\ lastOp.had
    /\ lastOp.value = "v2"
    /\ store[3] = <<lastOp.key, "v2">>
    /\ evicted = << >>

(***************************************************************************)
(* Dispatcher: what a callback is called with                              *)
(***************************************************************************)
\* the handler whose callback worker w is in
Called(w) == workers[w].table[workers[w].gi].handlers[workers[w].hi].handler

\* C24: the callback of a typed handler is called with the parsed event alone, and
\* only for an update of the handler's category; the callback of a raw handler is
\* called with the raw update, users and chats; for an update that has no parser only
\* raw handlers are called.
C24_TypedGetsParsedRawGetsEnvelope ==
    \A w \in DOMAIN workers :
        workers[w].pc = "call" =>
            /\ Called(w) = "m1" =>
                  /\ workers[w].packet = "UpdateNewMessage"
                  /\ workers[w].args = <<"Message">>
            /\ Called(w) = "raw" =>
                  workers[w].args = <<workers[w].packet, "users", "chats">>
            /\ workers[w].packet = "UpdateChannelTooLong" => Called(w) = "raw"

\* the pass for an edited message, whose parser gives another handler type, went by a
\* message handler and is in the callback of the raw handler after it
C24_Witness ==
    \E w \in DOMAIN workers :
        /\ workers[w].pc = "call"
        /\ workers[w].packet = "UpdateEditMessage"
        /\ Called(w) = "raw"
        /\ \E hi \in 1..(workers[w].hi - 1) :
              workers[w].table[workers[w].gi].handlers[hi].handler = "m1"

(***************************************************************************)
(* Dispatcher: one handler per group                                       *)
(***************************************************************************)
\* the callback of worker w ends in the step by returning or with a logged error
CallbackSettles(w) ==
    CallbackEnds(w) /\ workers'[w].last.outcome \in {"return", "error"}

\* the groups after the one worker w is in that hold a handler
LaterGroups(w) ==
    {g \in (workers[w].gi + 1)..Len(workers[w].table) : workers[w].table[g].handlers # << >>}

\* after the step the pass of worker w is at the first handler of the next group
\* that has one, with the same update and table, or is over when there is none
GoesToNextGroup(w) ==
    IF LaterGroups(w) = {}
    THEN ~InPass(workers'[w])
    ELSE /\ workers'[w].pc = "pass"
         /\ workers'[w].packet = workers[w].packet
         /\ workers'[w].table = workers[w].table
         /\ workers'[w].hi = 1
         /\ workers'[w].gi \in LaterGroups(w)
         /\ \A g \in LaterGroups(w) : workers'[w].gi <= g

\* C25 as stated: the one callback of a group that returns or fails is the callback
\* of the first handler of the group whose type and filter match, no callback of
\* the group having run before it in the pass; the pass then goes on with the later
\* groups.
C25_FirstMatchSettlesGroup ==
    [][ \A w \in Workers :
          CallbackSettles(w) =>
              /\ workers[w].last.gi # workers[w].gi
              /\ GoesToNextGroup(w) ]_vars

\* C25: in a pass at most one callback per group returns or fails with a logged
\* error: every callback of the group that ran before it in the pass raised
\* ContinuePropagation, and no handler of the group is tried after it.  The pass is
\* not over: it goes on, for the same update, with the first handler of the next
\* group that has one.
C25_OneSettledCallbackPerGroup ==
    [][ \A w \in Workers :
          CallbackSettles(w) =>
              /\ workers[w].last.gi = workers[w].gi =>
                    workers[w].last.outcome = "ContinuePropagation"
              /\ GoesToNextGroup(w) ]_vars

\* a callback of the first group returned, a handler of that group was left out,
\* and the callback of a handler of the second group runs for the same update
C25_Witness ==
    \E w \in DOMAIN workers :
        /\ workers[w].pc = "call"
        /\ workers[w].gi = 2 /\ workers[w].last.gi = 1
        /\ workers[w].last.outcome = "return" /\ workers[w].last.rest > 0

(***************************************************************************)
(* Dispatcher: stop                                                        *)
(***************************************************************************)
\* the stop sentinels on the queue
Sentinels == Cardinality({i \in 1..Len(updates_queue) : updates_queue[i] = NoValue})

\* the worker tasks that have ended
Ended == {w \in DOMAIN workers : workers[w].pc = "done"}

\* the updates on the queue that stand before a sentinel: they were put before stop
\* was called and are still to be taken
QueuedBeforeStop ==
    {i \in 1..Len(updates_queue) :
        /\ updates_queue[i] # NoValue
        /\ \E j \in (i + 1)..Len(updates_queue) : updates_queue[j] = NoValue}

GoesOn(w) ==
    /\ w \in DOMAIN workers'
    /\ workers'[w].pc \in {"pass", "get"}
    /\ workers'[w].pc = "pass" => locks_list'[w].owner = WorkerTask(w)
    /\ workers'[w].pc = "get" =>
          /\ locks_list'[w].owner # WorkerTask(w)
          /\ WorkerTask(w) \notin SeqRange(locks_list'[w].waiters)

\* C27: a step in which the parser, a handler's check or a handler's callback raises
\* an ordinary exception leaves the worker alive, inside its pass or back at the
\* queue with its lock released; a worker ends only in a step that takes a
\* sentinel from the queue; a worker outside a pass never holds its lock unless the
\* lock was just handed to it; and a worker back at the queue can take the next
\* packet as soon as there is one.
C27_ExceptionsNeverEndWorker ==
    /\ [][ \A w \in Workers :
             /\ WorkerGet(w, FALSE) => GoesOn(w)
             /\ WorkerCheck(w, "error") => GoesOn(w)
             /\ WorkerCallback(w, "error") => GoesOn(w)
             /\ (w \in DOMAIN workers /\ w \in DOMAIN workers'
                   /\ workers[w].pc # "done" /\ workers'[w].pc = "done") =>
                   (updates_queue # << >> /\ Head(updates_queue) = NoValue
                      /\ updates_queue' = Tail(updates_queue))
         ]_vars
    /\ [](\A w \in DOMAIN workers :
            /\ locks_list[w].owner = WorkerTask(w) => (InPass(workers[w]) \/ workers[w].pc = "wait")
            /\ (workers[w].pc \in {"get", "stop"} /\ updates_queue # << >>) =>
                  ENABLED WorkerGet(w, TRUE))

\* a callback failed with an ordinary exception, the pass went on to its end, and the
\* worker is back at the queue, its lock free, with the next update waiting
C27_Witness ==
    \E w \in DOMAIN workers :
        /\ workers[w].pc = "get"
        /\ workers[w].last.outcome = "error"
        /\ locks_list[w].owner = NoTask
        /\ updates_queue # << >> /\ Head(updates_queue) # NoValue

(***************************************************************************)
(* Dispatcher: the tasks of add_handler and remove_handler                 *)
(***************************************************************************)
\* the task of call j has ended
HasEnded(j) == j <= Len(muts) /\ muts[j].pc \in {"done", "failed"}

\* C28: every add_handler and remove_handler task ends, also with another such task
\* and the workers' passes under way; a task that has ended holds no worker lock and
\* waits for none; and the step in which a remove_handler fails leaves the group
\* table as it was.
C28_MutatorsFinishAndFreeLocks ==
    /\ \A j \in 1..MaxCalls : (j <= Len(muts)) ~> HasEnded(j)
    /\ [](\A j \in 1..Len(muts) :
            HasEnded(j) =>
                \A i \in 1..Len(locks_list) :
                    /\ locks_list[i].owner # MutTask(j)
                    /\ MutTask(j) \notin SeqRange(locks_list[i].waiters))
    /\ [][ \A j \in 1..Len(muts) :
             (muts[j].pc # "failed" /\ muts'[j].pc = "failed") =>
                 (muts[j].op = "remove" /\ groups' = groups) ]_vars

\* two tasks run at once: one holds the first worker's lock and waits for the lock
\* of the second worker, which is inside a pass, and the other task waits for the
\* first lock behind it
C28_Witness ==
    \E i \in 1..Len(muts), j \in 1..Len(muts) :
        /\ muts[i].pc = "waiting" /\ muts[i].li = 2
        /\ locks_list[1].owner = MutTask(i)
        /\ InPass(workers[2])
        /\ muts[j].pc = "waiting" /\ muts[j].li = 1
        /\ MutTask(j) \in SeqRange(locks_list[1].waiters)

(***************************************************************************)
(* The updates watchdog                                                    *)
(***************************************************************************)
\* the step in which the watchdog resumes after the timeout of its wait
AfterTimeout == wd.pc = "timed_out" /\ wd' # wd

\* the watchdog sends GetState in the step
Polls == wd'.polls # wd.polls

\* with the stop event clear, the watchdog resuming after an interval polls once when
\* no update was handled since the interval began, and does not poll when one was
PollsWhenIdle ==
    (AfterTimeout /\ ~updates_watchdog_event) =>
        /\ last_update_time < wd.started =>
              (wd'.pc = "polling" /\ wd'.polls = wd.polls + 1)
        /\ last_update_time >= wd.started => (~Polls /\ wd'.pc = "waiting")

\* C23: the watchdog resuming after an interval in which no update was handled sends
\* GetState once, it sends none when an update was handled in the interval, and
\* from the moment the stop event is set it sends no GetState any more and ends when
\* it resumes.
C23_WatchdogPollsWhenIdleOnly ==
    [][ /\ PollsWhenIdle
        /\ updates_watchdog_event => ~Polls
        /\ (updates_watchdog_event /\ wd.pc \in {"timed_out", "woken"} /\ wd' # wd) =>
              wd'.pc = "ended" ]_vars

(***************************************************************************)
(* get_file: the chunk sequence                                            *)
(***************************************************************************)
\* a chunk is yielded in the step
Yields == gf'.yielded # gf.yielded

\* C21: every call of get_file ends, whatever the servers answer, also a CDN that
\* keeps answering that a re-upload is needed; no more chunks than the limit are
\* yielded (2^31-1 for limit 0) and none after a chunk shorter than the chunk size.
C21_ChunkSequenceEnds ==
    /\ [](gf.pc # "idle" => gf.yielded <= gf.total)
    /\ [][gf.short => ~Yields]_vars
    /\ (gf.pc = "request") ~> (gf.pc = "done")

\* C22: on the CDN path a chunk is yielded only when every hash that the origin server
\* supplied for it matches its part of the decrypted chunk; once a hash did not match,
\* no chunk is yielded any more and the call ends with the CDN session stopped.
C22_OnlyVerifiedChunksYielded ==
    [][ gf.path = "cdn" =>
          /\ Yields => (~Mismatched(gf.chunk, gf.hashes) /\ ~gf.bad)
          /\ gf.bad => ~Yields
          /\ (gf'.bad /\ gf'.pc = "done") => gf'.cdn_session = "stopped" ]_vars

\* a first chunk was verified and yielded, the second hash of the second chunk did not
\* match, and the call has ended
C22_Witness ==
    /\ gf.path = "cdn" /\ gf.pc = "done" /\ gf.bad /\ gf.yielded = 1
    /\ Len(gf.hashes) = 2 /\ Len(gf.chunk) = 2
    /\ gf.hashes[1] = Sha256(<<Decrypt(gf.chunk)[1]>>)
    /\ gf.cdn_session = "stopped"

(***************************************************************************)
(* get_file: the media sessions                                            *)
(***************************************************************************)
\* the sessions made for data center dc
MadeFor(dc) == {i \in 1..Len(made) : made[i].dc = dc}

\* C29: whatever the interleaving of the get_file calls, at most one media session is
\* made for a data center, and a session that a call took from media_sessions was
\* started, and authorized if the data center is a foreign one, when it was taken.
C29_OneReadySessionPerDc ==
    /\ \A dc \in Dcs : Cardinality(MadeFor(dc)) <= 1
    /\ \A g \in Getters : getters[g].found => getters[g].ready

====
